---- MODULE Spec2Model ----
(***************************************************************************)
(* Developer activity tracker (LaurierCS/ScheduleApp, .github/scripts).    *)
(*                                                                         *)
(* The repository holds two programs.  The modular scripts:                *)
(* github_client.py (the Gateway), data_collector.py (the Classifier),     *)
(* config.py (configuration, roster parsing), notifier.py (the Sink) and   *)
(* utils.py; the script that calls them is not among the sources, its      *)
(* steps are ResolveRoster, CollectNext and Notify.  And the stand-alone    *)
(* script activity_tracker.py, which has its own requests, its own          *)
(* collection and its own Sink and calls none of the modules; the steps of  *)
(* its main are MainRoster, MainCollect and MainNotify.                     *)
(*                                                                         *)
(* Time is counted in whole days.  An API timestamp string                 *)
(* (YYYY-MM-DDTHH:MM:SSZ) is a fixed-width, zero-padded sequence of        *)
(* decimal digits, so that string comparison is lexicographic comparison   *)
(* and strptime/strftime are real conversions.  Python's None is None for  *)
(* text values and NoDate (the empty string/absent) for timestamp strings; *)
(* the code tests both with "not x".                                       *)
(***************************************************************************)
EXTENDS Integers, Sequences, FiniteSets, TLC

VARIABLES
    api,            \* the frozen snapshot of what the hosting platform answers
    config,         \* the loaded configuration (thresholds, ACTIVE_DEVS, dry_run)
    now,            \* the clock, datetime.now(), in days
    pc,             \* position of the run: "load", "start", "collect" in the
                    \* modular scripts, "main", "main_loop" in
                    \* activity_tracker.py, then "done", "crashed", "aborted"
    all_developers, \* the resolved roster
    all_data,       \* the records collected so far
    clock_log,      \* the clock readings of each classification (history)
    request_count,  \* GitHubClient.request_count
    roster_trace,   \* the requests issued while resolving the roster (history)
    traces,         \* per classification: its requests and logged errors (history)
    sent,           \* what was handed to the Sink
    environ,        \* os.environ and the command-line flags
    rate_limit_remaining,   \* GitHubClient.rate_limit_remaining
    rate_limit_reset,       \* GitHubClient.rate_limit_reset
    seconds,        \* the clock in seconds, as the rate-limit handling reads it
    http_log,       \* the exchanges of the Gateway's HTTP layer when it is
                    \* driven directly (Get, GetTimeline), one entry per call
    posts,          \* the payloads posted to the webhook, in order
    sink_log,       \* what load_config and the Sink logged
    notified_by,    \* the script whose send_discord_notification ran, or None
    sink_clock,     \* the clock of that call, once it ran (history)
    exit_code       \* the exit status of the process, None while it runs

gatewayVars == <<rate_limit_remaining, rate_limit_reset, seconds, http_log>>
sinkVars == <<posts, sink_log, notified_by, sink_clock>>

vars == <<api, config, now, pc, all_developers, all_data, clock_log,
          request_count, roster_trace, traces, sent, environ, gatewayVars,
          sinkVars, exit_code>>

-----------------------------------------------------------------------------
(* Bounds of the model *)

MaxIssues == 2      \* open issues in an assignee listing
MaxHistory == 2     \* issues in the "ever assigned" search
MaxTicks == 1       \* days the clock may advance during one run
MaxListLen == 3     \* characters of the ACTIVE_DEVS string

(* Program constants *)

InactivityThresholdDefault == 7
NoIssuesThresholdDefault == 3
StatsWindowDays == 30

-----------------------------------------------------------------------------
(* Python values *)

None == "None"
NoDate == <<>>
JsonNull == <<"null">>          \* a JSON null where an object with a login is expected
MissingKey == -1                \* an item without the "number" key
NullNumber == 0                 \* "number": null (or 0): falsy

Truthy(s) == s # <<>>           \* "if x" on a list/string/None-or-string value

Take(s, n) == SubSeq(s, 1, IF Len(s) < n THEN Len(s) ELSE n)

-----------------------------------------------------------------------------
(* The clock within one call.  A call reads datetime.now() at several      *)
(* places (sites), with requests in between, and midnight may pass while   *)
(* it runs: the sites before flip read day, the sites from flip on read    *)
(* day + 1; with NoFlip every site reads day.  pos counts the assigned      *)
(* issues the loop has reached, each check having a site of its own.        *)

NoFlip == 0

Clock(day, flip) == [day |-> day, flip |-> flip, pos |-> 1]
ReadAt(clk, site) ==
    IF clk.flip # NoFlip /\ site >= clk.flip THEN clk.day + 1 ELSE clk.day
NextIssue(clk) == [clk EXCEPT !.pos = @ + 1]
\* the day the clock shows when the call returns
DayAfter(clk) == IF clk.flip # NoFlip THEN clk.day + 1 ELSE clk.day

-----------------------------------------------------------------------------
(* Timestamps: strftime("%Y-%m-%dT%H:%M:%SZ"), strptime, string comparison *)

Digits == 0..9

strftime(t) == << (t \div 100) % 10, (t \div 10) % 10, t % 10 >>

WellFormedDate(s) == Len(s) = 3 /\ \A i \in 1..3 : s[i] \in Digits

\* datetime.strptime(s, fmt) on a well-formed string; it raises ValueError otherwise
strptime(s) == s[1] * 100 + s[2] * 10 + s[3]

\* Python's str < str: lexicographic, a proper prefix being smaller
RECURSIVE StrLess(_, _)
StrLess(a, b) ==
    IF b = <<>> THEN FALSE
    ELSE IF a = <<>> THEN TRUE
    ELSE IF Head(a) # Head(b) THEN Head(a) < Head(b)
    ELSE StrLess(Tail(a), Tail(b))

StrGE(a, b) == ~StrLess(a, b)
StrGT(a, b) == StrLess(b, a)

\* a timestamp with a fractional part: strptime rejects it
BadDate(t) == strftime(t) \o <<5>>

-----------------------------------------------------------------------------
(* Results of calls: a value or a raised exception, and the trace of the   *)
(* call: the HTTP requests it issued and the errors it logged, in order    *)

Ret(v, cs) == [exc |-> None, val |-> v, calls |-> cs]
Raise(text, cs) == [exc |-> text, val |-> <<>>, calls |-> cs]
Raised(r) == r.exc # None

Call(ep, n, since) == [ep |-> ep, n |-> n, since |-> since]
\* logger.error(...) in the except clause of function where
Err(where, text) == [ep |-> "logger.error", where |-> where, text |-> text]
IsRequest(entry) == entry.ep # "logger.error"
Requests(cs) == SelectSeq(cs, IsRequest)

AttributeErrorText == "'NoneType' object has no attribute 'get'"
KeyErrorNumberText == "'number'"
KeyErrorLoginText == "'login'"
ValueErrorText == "time data does not match format '%Y-%m-%dT%H:%M:%SZ'"
\* the text of the exception requests.get or requests.post raises
ConnectionErrorText == "connection error"

-----------------------------------------------------------------------------
(* int() of a text: the thresholds of the environment (config.py 39-40,     *)
(* activity_tracker.py 19, 21) and the rate-limit headers (github_client.py *)
(* 25-26).  A text is a sequence of characters, each a number: a decimal    *)
(* digit is its value 0..9, Blank (11) is a whitespace character, Plus (12) *)
(* and Minus (13) the two signs, Underscore (14) the underscore, and any    *)
(* other number (10, say) a character of none of these kinds.  int() strips *)
(* the whitespace around the text, takes one sign, and accepts digits with  *)
(* single underscores between them.                                         *)

Blank == 11
Plus == 12
Minus == 13
Underscore == 14

\* str.strip(): the text without the whitespace around it
RECURSIVE Stripped(_)
Stripped(str) ==
    IF str = <<>> THEN str
    ELSE IF str[1] = Blank THEN Stripped(Tail(str))
    ELSE IF str[Len(str)] = Blank THEN Stripped(SubSeq(str, 1, Len(str) - 1))
    ELSE str

\* the text after its sign, if it has one
Unsigned(str) == IF str # <<>> /\ str[1] \in {Plus, Minus} THEN Tail(str) ELSE str

\* digits, with single underscores between digits only
Grouped(str) ==
    /\ str # <<>>
    /\ \A i \in 1..Len(str) :
          \/ str[i] \in 0..9
          \/ /\ str[i] = Underscore
             /\ 1 < i /\ i < Len(str)
             /\ str[i - 1] \in 0..9 /\ str[i + 1] \in 0..9

\* the digits of a text, its sign and underscores passed over
DigitsOf(str) == SelectSeq(Unsigned(Stripped(str)), LAMBDA c : c \in 0..9)

\* int() accepts the string; CPython (3.11) raises ValueError too on a text
\* of more than 4300 digits
IsDecimal(str) ==
    Grouped(Unsigned(Stripped(str))) /\ Len(DigitsOf(str)) <= 4300
ValueErrorIntText == "invalid literal for int() with base 10"

\* the number the digits of a text read, its underscores passed over
RECURSIVE Magnitude(_)
Magnitude(str) ==
    IF str = <<>> THEN 0
    ELSE IF str[Len(str)] = Underscore THEN Magnitude(SubSeq(str, 1, Len(str) - 1))
    ELSE 10 * Magnitude(SubSeq(str, 1, Len(str) - 1)) + str[Len(str)]

\* int(s) of a string int() accepts
int(str) ==
    LET body == Stripped(str)
    IN  IF body[1] = Minus THEN 0 - Magnitude(Unsigned(body))
        ELSE Magnitude(Unsigned(body))

\* a header the response does not carry (no character is negative)
NoHeader == <<-1>>
\* the two rate-limit headers of the responses of the snapshot g
NoHeaders == [remaining |-> NoHeader, reset |-> NoHeader]
HeadersOf(g) == IF "headers" \in DOMAIN g THEN g.headers ELSE NoHeaders
\* the header is there and int() rejects it
HeaderRejected(h) == h # NoHeader /\ ~IsDecimal(h)

-----------------------------------------------------------------------------
(* Numbers of any size.  int() reads a text of any length, and a Python int *)
(* has no width.  A number of at most nine significant digits is stored as  *)
(* the integer itself, a longer one as its sign and its digits.  The        *)
(* arithmetic the code does on the reset (the seconds from the clock to it) *)
(* is done on digits, whatever the size of the two.                         *)

\* digits without the zeros that lead them
RECURSIVE Significant(_)
Significant(ds) == IF ds # <<>> /\ ds[1] = 0 THEN Significant(Tail(ds)) ELSE ds

\* int(str) < 0
Negative(str) == Stripped(str)[1] = Minus /\ Significant(DigitsOf(str)) # <<>>

\* int(str) has at most nine significant digits
Fits(str) == Len(Significant(DigitsOf(str))) <= 9

\* int(str) of a text int() accepts, of any length
Number(str) ==
    IF Fits(str) THEN int(str)
    ELSE [negative |-> Negative(str), digits |-> Significant(DigitsOf(str))]

\* a > b, of the digits of two natural numbers
Exceeds(a, b) == Len(a) > Len(b) \/ (Len(a) = Len(b) /\ StrGT(a, b))

\* str(n) of a natural number
RECURSIVE DecimalString(_)
DecimalString(n) ==
    IF n < 10 THEN <<n>> ELSE Append(DecimalString(n \div 10), n % 10)

\* the sign and the digits of an integer
NumeralOfInt(n) ==
    [negative |-> n < 0,
     digits |-> Significant(DecimalString(IF n < 0 THEN 0 - n ELSE n))]

\* the digits of a + b + carry, of the digits of two natural numbers
RECURSIVE AddDigits(_, _, _)
AddDigits(a, b, carry) ==
    IF a = <<>> /\ b = <<>> THEN (IF carry = 0 THEN <<>> ELSE <<carry>>)
    ELSE LET da == IF a = <<>> THEN 0 ELSE a[Len(a)]
             db == IF b = <<>> THEN 0 ELSE b[Len(b)]
             ra == IF a = <<>> THEN a ELSE SubSeq(a, 1, Len(a) - 1)
             rb == IF b = <<>> THEN b ELSE SubSeq(b, 1, Len(b) - 1)
         IN  Append(AddDigits(ra, rb, (da + db + carry) \div 10),
                    (da + db + carry) % 10)

\* the digits of a - b - borrow, where that is no less than 0; zeros may
\* lead them
RECURSIVE SubDigits(_, _, _)
SubDigits(a, b, borrow) ==
    IF a = <<>> THEN <<>>
    ELSE LET db == IF b = <<>> THEN 0 ELSE b[Len(b)]
             rb == IF b = <<>> THEN b ELSE SubSeq(b, 1, Len(b) - 1)
             d == a[Len(a)] - db - borrow
         IN  Append(SubDigits(SubSeq(a, 1, Len(a) - 1), rb, IF d < 0 THEN 1 ELSE 0),
                    IF d < 0 THEN d + 10 ELSE d)

\* x - y, of two numbers given by sign and digits
Difference(x, y) ==
    IF x.negative # y.negative
    THEN [negative |-> x.negative,
          digits |-> Significant(AddDigits(x.digits, y.digits, 0))]
    ELSE IF Exceeds(x.digits, y.digits)
    THEN [negative |-> x.negative,
          digits |-> Significant(SubDigits(x.digits, y.digits, 0))]
    ELSE IF x.digits = y.digits THEN [negative |-> FALSE, digits |-> <<>>]
    ELSE [negative |-> ~x.negative,
          digits |-> Significant(SubDigits(y.digits, x.digits, 0))]

\* datetime.fromtimestamp (CPython 3.11, local time UTC) takes the seconds
\* -62135510400 .. 253402300799 and raises ValueError or OverflowError
\* outside of them
TimestampMax == <<2, 5, 3, 4, 0, 2, 3, 0, 0, 7, 9, 9>>
TimestampMin == <<6, 2, 1, 3, 5, 5, 1, 0, 4, 0, 0>>

\* datetime.fromtimestamp(int(h)) raises
FromTimestampRaises(h) ==
    /\ h # NoHeader
    /\ ~Fits(h)
    /\ Exceeds(Significant(DigitsOf(h)),
               IF Negative(h) THEN TimestampMin ELSE TimestampMax)

-----------------------------------------------------------------------------
(* GitHubClient._handle_rate_limit (github_client.py 23-39).  A response     *)
(* carries the two rate-limit headers, each a text or missing.  Time is in   *)
(* seconds here.                                                             *)

RemainingDefault == 5000
ResetDefault == 0
LowWaterMark == 10
WaitCeiling == 300

\* int(response.headers.get(name, default))
HeaderOr(h, default) == IF h = NoHeader THEN default ELSE Number(h)

\* self.rate_limit_remaining < 10, of the remaining header int() accepts
BelowMark(h) ==
    IF h = NoHeader THEN RemainingDefault < LowWaterMark
    ELSE IF Fits(h) THEN int(h) < LowWaterMark
    ELSE Negative(h)

\* wait_time = (reset_time - now).total_seconds(), of the reset header
\* fromtimestamp accepts, at clock: its sign and its digits
wait_time(h, clock) ==
    Difference(IF h = NoHeader THEN NumeralOfInt(ResetDefault)
               ELSE [negative |-> Negative(h), digits |-> Significant(DigitsOf(h))],
               NumeralOfInt(clock))

\* wait_time > 0
Waits(h, clock) ==
    ~wait_time(h, clock).negative /\ wait_time(h, clock).digits # <<>>

\* wait_time < 300
WaitsBriefly(h, clock) ==
    \/ wait_time(h, clock).negative
    \/ Exceeds(DecimalString(WaitCeiling), wait_time(h, clock).digits)

\* the seconds _handle_rate_limit sleeps, 0 when it does not
SleepFor(remaining, reset, clock) ==
    IF BelowMark(remaining) /\ Waits(reset, clock) /\ WaitsBriefly(reset, clock)
    THEN Magnitude(wait_time(reset, clock).digits) + 1 ELSE 0

\* _handle_rate_limit raises on this response: int() on a header it rejects
\* (25, 26), or datetime.fromtimestamp on a reset it cannot hold, which is
\* evaluated only when remaining < 10 (28-29)
RateLimitRaises(response) ==
    \/ HeaderRejected(response.remaining)
    \/ HeaderRejected(response.reset)
    \/ BelowMark(response.remaining) /\ FromTimestampRaises(response.reset)

\* _handle_rate_limit on a response, the client's fields and the clock being
\* st: the two fields after it, whether it warned, the seconds it slept and
\* whether it raised.  It raises at the first statement that fails: the
\* fields assigned before it keep their new values, and nothing is logged
\* or slept
handle_rate_limit(response, st) ==
    LET raising == [rate_limit_remaining |-> st.rate_limit_remaining,
                    rate_limit_reset |-> st.rate_limit_reset,
                    warned |-> FALSE, slept |-> 0, raised |-> TRUE]
    IN  IF HeaderRejected(response.remaining) THEN raising
        ELSE IF HeaderRejected(response.reset)
        THEN [raising EXCEPT !.rate_limit_remaining =
                                 HeaderOr(response.remaining, RemainingDefault)]
        ELSE IF BelowMark(response.remaining) /\ FromTimestampRaises(response.reset)
        THEN [raising EXCEPT !.rate_limit_remaining =
                                 HeaderOr(response.remaining, RemainingDefault),
                             !.rate_limit_reset =
                                 HeaderOr(response.reset, ResetDefault)]
        ELSE [rate_limit_remaining |-> HeaderOr(response.remaining, RemainingDefault),
              rate_limit_reset |-> HeaderOr(response.reset, ResetDefault),
              warned |-> /\ BelowMark(response.remaining)
                         /\ Waits(response.reset, st.seconds),
              slept |-> SleepFor(response.remaining, response.reset, st.seconds),
              raised |-> FALSE]

\* the client's rate-limit fields and the clock (st) after _handle_rate_limit
\* on a response
RateLimitOn(response, st) ==
    LET h == handle_rate_limit(response, st) IN
    [rate_limit_remaining |-> h.rate_limit_remaining,
     rate_limit_reset |-> h.rate_limit_reset,
     seconds |-> st.seconds + h.slept]

-----------------------------------------------------------------------------
(* The Gateway: github_client.py.  g is the snapshot the platform answers   *)
(* from: g.dev[login] holds that login's issues, pull requests and          *)
(* comments, g.timeline[n] the events of issue n, g.fail the endpoints      *)
(* whose request is answered with a status other than 200,                  *)
(* g.fail_timeline the issues whose timeline request is, and g.raises,      *)
(* where the snapshot has it, the endpoints whose request raises (a         *)
(* network exception of requests.get).  g.headers, where the snapshot has   *)
(* it, holds the two rate-limit headers every response carries; when       *)
(* _handle_rate_limit raises on them, inside the try of the call, the call  *)
(* answers None whatever the status.                                        *)

PerPage == 100

EmptyDev == [issues |-> <<>>, history |-> <<>>, prs |-> <<>>,
             open_prs |-> <<>>, comments |-> <<>>]

\* what the platform holds for a login (nothing for a login it does not know)
DevOf(g, username) ==
    IF username \in DOMAIN g.dev THEN g.dev[username] ELSE EmptyDev

\* requests.get raises for this endpoint
RaisesAt(g, ep) == "raises" \in DOMAIN g /\ ep \in g.raises
\* the request is answered, with a status other than 200
StatusFailed(g, ep) == ep \in g.fail

\* a Gateway that issues no request while the quota it stored last is below
\* the low-water mark, and answers None instead
FailedWhileLimited(g, ep) ==
    \/ StatusFailed(g, ep) \/ RaisesAt(g, ep) \/ RateLimitRaises(HeadersOf(g))
    \/ g.rate_limit_remaining < LowWaterMark

\* GitHubClient.get answers None when the request fails, by its status or by
\* an exception, which it catches (51-72): that of requests.get, or that of
\* _handle_rate_limit on the response; every caller tests the answer with
\* "if not x", as it does an empty list
Failed(g, ep) ==
    StatusFailed(g, ep) \/ RaisesAt(g, ep) \/ RateLimitRaises(HeadersOf(g))

get_user_prs(g, username, since_date, check_existence_only, merged_only) ==
    LET ep == IF merged_only THEN "search_merged" ELSE "search_prs"
        cs == <<Call(ep, 0, since_date)>>
        match == SelectSeq(DevOf(g, username).prs,
                    LAMBDA p : /\ strptime(p.created_at) >= strptime(since_date)
                               /\ (merged_only => p.merged))
        page == Take(match, IF check_existence_only THEN 1 ELSE PerPage)
    IN  IF Failed(g, ep)
        THEN Ret([items |-> <<>>, total_count |-> 0], cs)
        ELSE Ret([items |-> page, total_count |-> Len(match)], cs)

get_user_comments(g, username, since_date, check_existence_only) ==
    LET cs == <<Call("search_comments", 0, since_date)>>
        match == SelectSeq(DevOf(g, username).comments,
                    LAMBDA c : strptime(c.updated_at) >= strptime(since_date))
    IN  IF Failed(g, "search_comments")
        THEN Ret(<<>>, cs)
        ELSE Ret(Take(match, IF check_existence_only THEN 1 ELSE PerPage), cs)

get_user_open_prs(g, username) ==
    LET cs == <<Call("pulls", 0, NoDate)>>
    IN  IF Failed(g, "pulls") THEN Ret(<<>>, cs)
        ELSE Ret(Take(DevOf(g, username).open_prs, PerPage), cs)

\* the commit dates the platform holds for a login, newest first, where the
\* snapshot has any
CommitLog(g, username) ==
    IF "commits" \in DOMAIN DevOf(g, username)
    THEN DevOf(g, username).commits ELSE <<>>

\* repos/{repo}/commits?author=...&since=...: the commits on/after since_date
get_user_commits(g, username, since_date, check_existence_only) ==
    LET cs == <<Call("commits", 0, since_date)>>
        match == SelectSeq(CommitLog(g, username),
                    LAMBDA d : strptime(d) >= strptime(since_date))
    IN  IF Failed(g, "commits") THEN Ret(<<>>, cs)
        ELSE Ret(Take(match, IF check_existence_only THEN 1 ELSE PerPage), cs)

get_assigned_issues(g, username) ==
    LET cs == <<Call("issues", 0, NoDate)>>
        issues == Take(DevOf(g, username).issues, PerPage)
        filtered_issues == SelectSeq(issues, LAMBDA i : ~i.pull_request)
    IN  IF Failed(g, "issues") \/ issues = <<>> THEN Ret(<<>>, cs)
        \* the debug line reads issue["number"] of every filtered issue
        ELSE IF \E k \in 1..Len(filtered_issues) :
                    filtered_issues[k].number = MissingKey
        THEN Raise(KeyErrorNumberText, cs)
        ELSE Ret(filtered_issues, cs)

get_issue_timeline(g, issue_number) ==
    LET cs == <<Call("timeline", issue_number, NoDate)>>
    IN  IF \/ RaisesAt(g, "timeline")
           \/ RateLimitRaises(HeadersOf(g))
           \/ issue_number \in g.fail_timeline
           \/ issue_number \notin DOMAIN g.timeline
        THEN Ret(<<>>, cs)
        ELSE Ret(g.timeline[issue_number], cs)

\* the scan both lookups run over an issue's events: the first "assigned"
\* event whose assignee login is username.  found tells whether one matched;
\* an "assigned" event whose assignee is null raises AttributeError
RECURSIVE ScanAssigned(_, _)
ScanAssigned(events, username) ==
    IF events = <<>> THEN [exc |-> None, found |-> FALSE, date |-> NoDate]
    ELSE LET event == Head(events) IN
         IF event.event # "assigned" THEN ScanAssigned(Tail(events), username)
         ELSE IF event.assignee = JsonNull
         THEN [exc |-> AttributeErrorText, found |-> FALSE, date |-> NoDate]
         ELSE IF event.assignee = username
         THEN [exc |-> None, found |-> TRUE, date |-> event.created_at]
         ELSE ScanAssigned(Tail(events), username)

get_issue_assignment_date(g, issue_number, username) ==
    LET tl == get_issue_timeline(g, issue_number)
        scan == ScanAssigned(tl.val, username)
    IN  IF ~Truthy(tl.val) THEN Ret(NoDate, tl.calls)
        ELSE IF scan.exc # None THEN Raise(scan.exc, tl.calls)
        ELSE Ret(scan.date, tl.calls)

\* the loop of get_last_assigned_date over the issues the search returned
RECURSIVE LastAssignedLoop(_, _, _, _)
LastAssignedLoop(g, issues, username, cs) ==
    IF issues = <<>> THEN Ret(NoDate, cs)
    ELSE IF Head(issues).number = MissingKey THEN Raise(KeyErrorNumberText, cs)
    ELSE LET tl == get_issue_timeline(g, Head(issues).number)
             scan == ScanAssigned(tl.val, username)
             cs2 == cs \o tl.calls
         IN  IF ~Truthy(tl.val)
             THEN LastAssignedLoop(g, Tail(issues), username, cs2)
             ELSE IF scan.exc # None THEN Raise(scan.exc, cs2)
             ELSE IF scan.found THEN Ret(scan.date, cs2)
             ELSE LastAssignedLoop(g, Tail(issues), username, cs2)

get_last_assigned_date(g, username) ==
    LET cs == <<Call("search_assigned", 0, NoDate)>>
        items == Take(DevOf(g, username).history, PerPage)
    IN  IF Failed(g, "search_assigned") \/ items = <<>> THEN Ret(NoDate, cs)
        ELSE LastAssignedLoop(g, items, username, cs)

-----------------------------------------------------------------------------
(* activity_tracker.py: its own requests.  They send the queries the        *)
(* Gateway sends and read the answers the same way, but stand outside any   *)
(* try: an exception of requests.get leaves the function, as does an        *)
(* exception raised while the answer is read.  They test the status of a    *)
(* response and decode its body; the rate-limit headers are never read.     *)

\* the snapshot as the script reads it, the rate-limit headers left aside
HeadersUnread(g) ==
    IF "headers" \in DOMAIN g THEN [g EXCEPT !.headers = NoHeaders] ELSE g

\* the answer r of the query to endpoint ep, unless the request raises
TrackerCall(g, ep, r) ==
    IF RaisesAt(g, ep) THEN Raise(ConnectionErrorText, r.calls) ELSE r

tracker_get_user_commits(g, username, since_date, check_existence_only) ==
    TrackerCall(g, "commits",
        get_user_commits(HeadersUnread(g), username, since_date,
                         check_existence_only))

tracker_get_user_prs(g, username, since_date, check_existence_only, merged_only) ==
    TrackerCall(g, IF merged_only THEN "search_merged" ELSE "search_prs",
        get_user_prs(HeadersUnread(g), username, since_date,
                     check_existence_only, merged_only))

tracker_get_user_comments(g, username, since_date, check_existence_only) ==
    TrackerCall(g, "search_comments",
        get_user_comments(HeadersUnread(g), username, since_date,
                          check_existence_only))

tracker_get_assigned_issues(g, username) ==
    TrackerCall(g, "issues", get_assigned_issues(HeadersUnread(g), username))

\* the timeline is requested for whatever issue.get("number") gave, None too
tracker_get_issue_assignment_date(g, issue_number, username) ==
    TrackerCall(g, "timeline",
        get_issue_assignment_date(HeadersUnread(g), issue_number, username))

\* the loop of get_last_assigned_date over the issues the search returned
RECURSIVE TrackerLastAssignedLoop(_, _, _, _)
TrackerLastAssignedLoop(g, issues, username, cs) ==
    IF issues = <<>> THEN Ret(NoDate, cs)
    ELSE IF Head(issues).number = MissingKey THEN Raise(KeyErrorNumberText, cs)
    ELSE IF RaisesAt(g, "timeline")
    THEN Raise(ConnectionErrorText,
               cs \o get_issue_timeline(HeadersUnread(g), Head(issues).number).calls)
    ELSE LET tl == get_issue_timeline(HeadersUnread(g), Head(issues).number)
             scan == ScanAssigned(tl.val, username)
             cs2 == cs \o tl.calls
         IN  IF scan.exc # None THEN Raise(scan.exc, cs2)
             ELSE IF scan.found THEN Ret(scan.date, cs2)
             ELSE TrackerLastAssignedLoop(g, Tail(issues), username, cs2)

tracker_get_last_assigned_date(g, username) ==
    LET cs == <<Call("search_assigned", 0, NoDate)>>
        items == Take(DevOf(g, username).history, PerPage)
    IN  IF RaisesAt(g, "search_assigned") THEN Raise(ConnectionErrorText, cs)
        ELSE IF StatusFailed(g, "search_assigned") \/ items = <<>> THEN Ret(NoDate, cs)
        ELSE TrackerLastAssignedLoop(g, items, username, cs)

-----------------------------------------------------------------------------
(* The Gateway's HTTP layer: GitHubClient.get and get_issue_timeline.  A     *)
(* response carries a status, a decoded body and the two rate-limit         *)
(* headers; NoResponse stands for requests.get raising.                     *)

NoResponse == 0
\* the None a call returns, told apart from an empty decoded body
NoBody == <<"None">>

\* the client's rate-limit fields and the clock (st) after the requests of
\* the trace cs, issued in order: _handle_rate_limit runs on every response,
\* whatever its status, and not when requests.get raised
RECURSIVE RateLimitAfter(_, _, _)
RateLimitAfter(g, cs, st) ==
    IF cs = <<>> THEN st
    ELSE IF ~IsRequest(Head(cs)) \/ RaisesAt(g, Head(cs).ep)
    THEN RateLimitAfter(g, Tail(cs), st)
    ELSE RateLimitAfter(g, Tail(cs), RateLimitOn(HeadersOf(g), st))

\* one call of GitHubClient.get (or of get_issue_timeline, which repeats its
\* body): the request is issued once, the rate limit is handled, and the call
\* returns the decoded body of a 200 response and None otherwise; None too
\* when _handle_rate_limit raises, an exception the call catches and logs
HttpCall(method, response) ==
    /\ request_count' = request_count + 1
    /\ IF response.status = NoResponse
       THEN /\ http_log' = Append(http_log,
                    [method |-> method, response |-> response, at |-> seconds,
                     issued |-> 1, warned |-> FALSE, slept |-> 0,
                     error_logged |-> TRUE, returned |-> NoBody])
            /\ UNCHANGED <<rate_limit_remaining, rate_limit_reset, seconds>>
       ELSE LET h == handle_rate_limit(response,
                         [rate_limit_remaining |-> rate_limit_remaining,
                          rate_limit_reset |-> rate_limit_reset,
                          seconds |-> seconds]) IN
            /\ rate_limit_remaining' = h.rate_limit_remaining
            /\ rate_limit_reset' = h.rate_limit_reset
            /\ seconds' = seconds + h.slept
            /\ http_log' = Append(http_log,
                    [method |-> method, response |-> response, at |-> seconds,
                     issued |-> 1, warned |-> h.warned, slept |-> h.slept,
                     error_logged |-> h.raised \/ response.status # 200,
                     returned |-> IF ~h.raised /\ response.status = 200
                                  THEN response.body ELSE NoBody])

-----------------------------------------------------------------------------
(* utils.py *)

format_date_display(date_str, t) ==
    IF ~Truthy(date_str) THEN "unknown"
    ELSE IF ~WellFormedDate(date_str) THEN "unknown date format"
    ELSE LET days_ago == t - strptime(date_str) IN
         IF days_ago = 0 THEN "today"
         ELSE IF days_ago = 1 THEN "yesterday"
         ELSE ToString(days_ago) \o " days ago"

\* what format_date_display logs: the ValueError of strptime, caught
DisplayErrors(date_str) ==
    IF Truthy(date_str) /\ ~WellFormedDate(date_str)
    THEN <<Err("format_date_display", ValueErrorText)>> ELSE <<>>

-----------------------------------------------------------------------------
(* The Classifier: data_collector.py.  t is a reading of datetime.now(),    *)
(* clk the clock of one call of collect_developer_data, which reads it for *)
(* the three cutoffs, once for every assigned issue whose grace period it   *)
(* tests, and once more to display the last activity.                       *)

InactivitySite == 1
NoIssuesSite == 2
StatsSite == 3
\* the test of the grace period of the assigned issue the loop is at
GraceSite(clk) == StatsSite + clk.pos
\* format_date_display, after the loop over a listing of at most a page
DisplaySite == StatsSite + PerPage + 1

\* a loop that takes the open pull requests updated before the cutoff
OpenPrUpdatedBefore(open_prs, cutoff_date_str) ==
    \E k \in 1..Len(open_prs) :
        /\ Truthy(open_prs[k].updated_at)
        /\ StrLess(open_prs[k].updated_at, cutoff_date_str)

\* the loop over the open pull requests in check_recent_activity
OpenPrUpdatedSince(open_prs, cutoff_date_str) ==
    \E k \in 1..Len(open_prs) :
        /\ Truthy(open_prs[k].updated_at)
        /\ StrGE(open_prs[k].updated_at, cutoff_date_str)

\* the three checks of check_recent_activity, in their order, over the answers
\* of the three queries; a query is issued only when the checks before it miss
ProbeAnswer(prs, open_prs, comments, cutoff_date_str) ==
    IF Truthy(prs.val.items)
    THEN Ret([hit |-> TRUE, type |-> "created a pull request"], prs.calls)
    ELSE IF OpenPrUpdatedSince(open_prs.val, cutoff_date_str)
    THEN Ret([hit |-> TRUE, type |-> "has active pull requests"],
             prs.calls \o open_prs.calls)
    ELSE IF Truthy(comments.val)
    THEN Ret([hit |-> TRUE, type |-> "commented on issues"],
             prs.calls \o open_prs.calls \o comments.calls)
    ELSE Ret([hit |-> FALSE, type |-> None],
             prs.calls \o open_prs.calls \o comments.calls)

\* activity_tracker.py's own check_recent_activity: commits, then pull
\* requests created, then comments; the open pull requests are not looked at.
\* A query is issued only when the checks before it miss, and its exception
\* leaves the function
TrackerProbeAnswer(commits, prs, comments) ==
    IF Raised(commits) THEN commits
    ELSE IF Truthy(commits.val)
    THEN Ret([hit |-> TRUE, type |-> "committed code"], commits.calls)
    ELSE IF Raised(prs) THEN Raise(prs.exc, commits.calls \o prs.calls)
    ELSE IF Truthy(prs.val.items)
    THEN Ret([hit |-> TRUE, type |-> "created a pull request"],
             commits.calls \o prs.calls)
    ELSE IF Raised(comments)
    THEN Raise(comments.exc, commits.calls \o prs.calls \o comments.calls)
    ELSE IF Truthy(comments.val)
    THEN Ret([hit |-> TRUE, type |-> "commented on issues"],
             commits.calls \o prs.calls \o comments.calls)
    ELSE Ret([hit |-> FALSE, type |-> None],
             commits.calls \o prs.calls \o comments.calls)

tracker_check_recent_activity(g, username, cutoff_date_str) ==
    TrackerProbeAnswer(
        tracker_get_user_commits(g, username, cutoff_date_str, TRUE),
        tracker_get_user_prs(g, username, cutoff_date_str, TRUE, FALSE),
        tracker_get_user_comments(g, username, cutoff_date_str, TRUE))

check_recent_activity(g, username, cutoff_date_str) ==
    ProbeAnswer(get_user_prs(g, username, cutoff_date_str, TRUE, FALSE),
                get_user_open_prs(g, username),
                get_user_comments(g, username, cutoff_date_str, TRUE),
                cutoff_date_str)

\* a grace period one day short
GraceRunningOffByOne(assignment_date, inactivity_threshold_days, t) ==
    strptime(assignment_date) + inactivity_threshold_days > t + 1

\* whether the grace period of an assignment made at assignment_date is still
\* running at t
GraceRunning(assignment_date, inactivity_threshold_days, t) ==
    strptime(assignment_date) + inactivity_threshold_days > t

\* the answer of check_activity_since_assignment once the grace period is over
AfterGrace(probe) ==
    IF Raised(probe)
    THEN Ret(FALSE, Append(probe.calls,
                           Err("check_activity_since_assignment", probe.exc)))
    ELSE Ret(probe.val.hit, probe.calls)

check_activity_since_assignment(g, username, assignment_date, inactivity_threshold_days, t) ==
    IF ~Truthy(assignment_date) THEN Ret(FALSE, <<>>)
    \* strptime raises ValueError inside the try: logged, answered False
    ELSE IF ~WellFormedDate(assignment_date)
    THEN Ret(FALSE, <<Err("check_activity_since_assignment", ValueErrorText)>>)
    ELSE IF GraceRunning(assignment_date, inactivity_threshold_days, t)
    THEN Ret(TRUE, <<>>)
    ELSE AfterGrace(check_recent_activity(g, username,
             strftime(strptime(assignment_date) + inactivity_threshold_days)))

\* one assigned issue of the loop of collect_developer_data: its assignment
\* date ad, then the check chk; rest is the answer for the issues after it
IssueChecked(ad, chk, cs, rest) ==
    IF chk.val THEN Ret(TRUE, cs \o ad.calls \o chk.calls) ELSE rest

IssueDated(g, username, ad, inactivity_threshold_days, clk, cs, rest) ==
    IF Raised(ad) THEN Raise(ad.exc, cs \o ad.calls)
    ELSE IssueChecked(ad,
             check_activity_since_assignment(g, username, ad.val,
                 inactivity_threshold_days, ReadAt(clk, GraceSite(clk))),
             cs, rest)

\* the requests one assigned issue adds when it does not end the loop
IssueCalls(g, username, issue_number, inactivity_threshold_days, clk) ==
    IF issue_number = NullNumber THEN <<>>
    ELSE LET ad == get_issue_assignment_date(g, issue_number, username) IN
         IF Raised(ad) THEN ad.calls
         ELSE ad.calls \o check_activity_since_assignment(g, username, ad.val,
                              inactivity_threshold_days,
                              ReadAt(clk, GraceSite(clk))).calls

\* the loop of collect_developer_data over the assigned issues: whether one of
\* them yields "active since assignment"; it stops at the first that does
RECURSIVE ActiveSinceAssignment(_, _, _, _, _, _)
ActiveSinceAssignment(g, username, issues, inactivity_threshold_days, clk, cs) ==
    IF issues = <<>> THEN Ret(FALSE, cs)
    ELSE IF Head(issues).number = NullNumber
    THEN ActiveSinceAssignment(g, username, Tail(issues),
                               inactivity_threshold_days, NextIssue(clk), cs)
    ELSE IssueDated(g, username,
             get_issue_assignment_date(g, Head(issues).number, username),
             inactivity_threshold_days, clk, cs,
             ActiveSinceAssignment(g, username, Tail(issues),
                 inactivity_threshold_days, NextIssue(clk),
                 cs \o IssueCalls(g, username, Head(issues).number,
                                  inactivity_threshold_days, clk)))

\* "verify each pr is by this user": pr.get("user", {}).get("login") raises
\* AttributeError on an item whose user is null
HasNullUser(prs) == \E k \in 1..Len(prs) : prs[k].user = JsonNull
VerifiedBy(prs, username) == SelectSeq(prs, LAMBDA pr : pr.user = username)

\* last-activity resolution over the open pull requests
RECURSIVE LastOverOpenPrs(_, _)
LastOverOpenPrs(open_prs, last) ==
    IF open_prs = <<>> THEN last
    ELSE IF /\ Truthy(Head(open_prs).updated_at)
            /\ (~Truthy(last.date) \/ StrGT(Head(open_prs).updated_at, last.date))
    THEN LastOverOpenPrs(Tail(open_prs),
                         [date |-> Head(open_prs).updated_at, type |-> "PR"])
    ELSE LastOverOpenPrs(Tail(open_prs), last)

LastOverComments(comments, last) ==
    IF /\ Truthy(comments)
       /\ Truthy(comments[1].updated_at)
       /\ (~Truthy(last.date) \/ StrGT(comments[1].updated_at, last.date))
    THEN [date |-> comments[1].updated_at, type |-> "comment"]
    ELSE last

LastActivity(prs, open_prs, comments) ==
    LastOverComments(comments,
        LastOverOpenPrs(open_prs,
            IF Truthy(prs) /\ Truthy(prs[1].updated_at)
            THEN [date |-> prs[1].updated_at, type |-> "PR"]
            ELSE [date |-> NoDate, type |-> None]))

\* a fallback record that drops the text of the exception
FallbackRecordNoText(username, text) ==
    [username |-> username,
     stats |-> [prs_created |-> 0, prs_merged |-> 0, issues_assigned |-> 0,
                comments |-> 0, last_activity_date |-> NoDate,
                last_activity_type |-> None,
                last_activity_display |-> "error collecting data"],
     has_assigned_issues |-> FALSE,
     is_inactive |-> TRUE,
     inactivity_reason |-> "error collecting data",
     has_no_issues |-> TRUE,
     last_assigned_date |-> NoDate]

\* the fallback record of the except branch
FallbackRecord(username, text) ==
    [username |-> username,
     stats |-> [prs_created |-> 0, prs_merged |-> 0, issues_assigned |-> 0,
                comments |-> 0, last_activity_date |-> NoDate,
                last_activity_type |-> None,
                last_activity_display |-> "error collecting data"],
     has_assigned_issues |-> FALSE,
     is_inactive |-> TRUE,
     inactivity_reason |-> "error collecting data: " \o text,
     has_no_issues |-> TRUE,
     last_assigned_date |-> NoDate]

Fall(username, text, cs) ==
    [rec |-> FallbackRecord(username, text),
     calls |-> Append(cs, Err("collect_developer_data", text))]

\* a verdict that leaves the reason to the refinement
VerdictOfIssuesWithoutReason(a) ==
    IF Raised(a) THEN a
    ELSE Ret([is_inactive |-> ~a.val, inactivity_reason |-> None], a.calls)

\* the verdict once the assigned issues were examined
VerdictOfIssues(a) ==
    IF Raised(a) THEN a
    ELSE IF a.val
    THEN Ret([is_inactive |-> FALSE, inactivity_reason |-> None], a.calls)
    ELSE Ret([is_inactive |-> TRUE,
              inactivity_reason |-> "no activity since issue assignment"],
             a.calls)

\* "determine if inactive based on our criteria"
Verdict(g, username, has_recent_activity, assigned_issues, inactivity_threshold_days, clk) ==
    IF has_recent_activity
    THEN Ret([is_inactive |-> FALSE, inactivity_reason |-> None], <<>>)
    ELSE IF Len(assigned_issues) > 0
    THEN VerdictOfIssues(ActiveSinceAssignment(g, username, assigned_issues,
                             inactivity_threshold_days, clk, <<>>))
    ELSE Ret([is_inactive |-> TRUE,
              inactivity_reason |-> "no recent activity and no assigned issues"],
             <<>>)

\* a no-issues verdict that excludes the boundary day
NoIssuesOfStrict(l, no_issues_threshold_days, t) ==
    IF Raised(l) THEN l
    ELSE IF ~Truthy(l.val)
    THEN Ret([has_no_issues |-> TRUE, last_assigned_date |-> NoDate], l.calls)
    ELSE IF ~WellFormedDate(l.val) THEN Raise(ValueErrorText, l.calls)
    ELSE Ret([has_no_issues |-> strptime(l.val) < t - no_issues_threshold_days,
              last_assigned_date |-> l.val], l.calls)

\* the no-issues verdict from the answer l of get_last_assigned_date
NoIssuesOf(l, no_issues_threshold_days, t) ==
    IF Raised(l) THEN l
    ELSE IF ~Truthy(l.val)
    THEN Ret([has_no_issues |-> TRUE, last_assigned_date |-> NoDate], l.calls)
    \* strptime raises ValueError, outside any inner try
    ELSE IF ~WellFormedDate(l.val) THEN Raise(ValueErrorText, l.calls)
    ELSE Ret([has_no_issues |-> strptime(l.val) <= t - no_issues_threshold_days,
              last_assigned_date |-> l.val], l.calls)

\* a no-issues check that looks the last assignment up for every developer
NoIssuesLookedUpForAll(g, username, has_assigned_issues, no_issues_threshold_days, t) ==
    NoIssuesOf(get_last_assigned_date(g, username), no_issues_threshold_days, t)

\* "check if user has no issues"
NoIssues(g, username, has_assigned_issues, no_issues_threshold_days, t) ==
    IF has_assigned_issues
    THEN Ret([has_no_issues |-> FALSE, last_assigned_date |-> NoDate], <<>>)
    ELSE NoIssuesOf(get_last_assigned_date(g, username),
                    no_issues_threshold_days, t)

\* a refinement that forgets to test is_inactive
RefineReasonUnguarded(is_inactive, inactivity_reason, prs, open_prs, merged_prs_count, comments, inactivity_threshold_days) ==
    IF inactivity_reason = None
    THEN IF Len(prs) = 0 /\ ~Truthy(open_prs)
         THEN "no pull requests created recently"
         ELSE IF merged_prs_count = 0 THEN "no pull requests merged recently"
         ELSE IF Len(comments) = 0 THEN "no comments on issues/prs recently"
         ELSE "no activity in the past "
              \o ToString(inactivity_threshold_days) \o " days"
    ELSE inactivity_reason

\* "more detailed inactivity reasons"
RefineReason(is_inactive, inactivity_reason, prs, open_prs, merged_prs_count, comments, inactivity_threshold_days) ==
    IF is_inactive /\ inactivity_reason = None
    THEN IF Len(prs) = 0 /\ ~Truthy(open_prs)
         THEN "no pull requests created recently"
         ELSE IF merged_prs_count = 0 THEN "no pull requests merged recently"
         ELSE IF Len(comments) = 0 THEN "no comments on issues/prs recently"
         ELSE "no activity in the past "
              \o ToString(inactivity_threshold_days) \o " days"
    ELSE inactivity_reason

\* the record of the return statement; t is the reading of format_date_display
Record(username, cfg, t, assigned_issues, prs, merged_prs_count, comments, open_prs, last, verdict, ni) ==
    [username |-> username,
     stats |-> [prs_created |-> Len(prs),
                prs_merged |-> merged_prs_count,
                issues_assigned |-> Len(assigned_issues),
                comments |-> Len(comments),
                last_activity_date |-> last.date,
                last_activity_type |-> last.type,
                last_activity_display |->
                    IF Truthy(last.date)
                    THEN format_date_display(last.date, t) ELSE "never"],
     has_assigned_issues |-> Len(assigned_issues) > 0,
     is_inactive |-> verdict.is_inactive,
     inactivity_reason |->
         RefineReason(verdict.is_inactive, verdict.inactivity_reason, prs,
                      open_prs, merged_prs_count, comments,
                      cfg.inactivity_threshold_days),
     has_no_issues |-> ni.has_no_issues,
     last_assigned_date |-> ni.last_assigned_date]

\* collect_developer_data from the no-issues lookup on
CollectNoIssues(username, cfg, clk, assigned_issues, prs, merged_prs_count, comments, open_prs, verdict, ni, cs) ==
    IF Raised(ni) THEN Fall(username, ni.exc, cs \o ni.calls)
    ELSE [rec |-> Record(username, cfg, ReadAt(clk, DisplaySite), assigned_issues, prs,
                         merged_prs_count, comments, open_prs,
                         LastActivity(prs, open_prs, comments),
                         verdict.val, ni.val),
          calls |-> cs \o ni.calls
                    \o DisplayErrors(LastActivity(prs, open_prs, comments).date)]

\* collect_developer_data from the verdict on
CollectVerdict(g, username, cfg, clk, assigned_issues, prs, merged_prs_count, comments, open_prs, verdict, cs) ==
    IF Raised(verdict) THEN Fall(username, verdict.exc, cs \o verdict.calls)
    ELSE CollectNoIssues(username, cfg, clk, assigned_issues, prs,
             merged_prs_count, comments, open_prs, verdict,
             NoIssues(g, username, Len(assigned_issues) > 0,
                      cfg.no_issues_threshold_days, ReadAt(clk, NoIssuesSite)),
             cs \o verdict.calls)

\* collect_developer_data from the statistics queries on
CollectStats(g, username, cfg, clk, assigned, probe, found, merged, comments, listed) ==
    IF HasNullUser(found.val.items)
    THEN Fall(username, AttributeErrorText,
              assigned.calls \o probe.calls \o found.calls)
    ELSE IF HasNullUser(listed.val)
    THEN Fall(username, AttributeErrorText,
              assigned.calls \o probe.calls \o found.calls \o merged.calls
              \o comments.calls \o listed.calls)
    ELSE CollectVerdict(g, username, cfg, clk, assigned.val,
             VerifiedBy(found.val.items, username), merged.val.total_count,
             comments.val, VerifiedBy(listed.val, username),
             Verdict(g, username, probe.val.hit, assigned.val,
                     cfg.inactivity_threshold_days, clk),
             assigned.calls \o probe.calls \o found.calls \o merged.calls
             \o comments.calls \o listed.calls)

\* collect_developer_data from the assigned-issues listing on
CollectAssigned(g, username, cfg, clk, assigned) ==
    IF Raised(assigned) THEN Fall(username, assigned.exc, assigned.calls)
    ELSE CollectStats(g, username, cfg, clk, assigned,
             check_recent_activity(g, username,
                 strftime(ReadAt(clk, InactivitySite) - cfg.inactivity_threshold_days)),
             get_user_prs(g, username,
                 strftime(ReadAt(clk, StatsSite) - StatsWindowDays), FALSE, FALSE),
             get_user_prs(g, username,
                 strftime(ReadAt(clk, StatsSite) - StatsWindowDays), FALSE, TRUE),
             get_user_comments(g, username,
                 strftime(ReadAt(clk, StatsSite) - StatsWindowDays), FALSE),
             get_user_open_prs(g, username))

\* collect_developer_data: the record it returns and the requests it issued
collect_developer_data(g, username, cfg, clk) ==
    CollectAssigned(g, username, cfg, clk, get_assigned_issues(g, username))

\* the sites at which midnight may pass during a call for username: any but
\* the first, up to the last reading
Flips(g, username) ==
    {NoIssuesSite, StatsSite, DisplaySite}
    \cup {StatsSite + p : p \in 1..Len(Take(DevOf(g, username).issues, PerPage))}

-----------------------------------------------------------------------------
(* activity_tracker.py: its own collection.  It counts commits as activity, *)
(* takes the pull requests of the search as they come (no check of their    *)
(* author), does not ask for the open pull requests, and has no try: an     *)
(* exception leaves collect_developer_data.                                 *)

\* activity_tracker.check_activity_since_assignment
tracker_check_activity_since_assignment(g, username, assignment_date, inactivity_threshold_days, t) ==
    IF ~Truthy(assignment_date) THEN Ret(FALSE, <<>>)
    ELSE IF ~WellFormedDate(assignment_date) THEN Raise(ValueErrorText, <<>>)
    ELSE IF GraceRunning(assignment_date, inactivity_threshold_days, t)
    THEN Ret(TRUE, <<>>)
    ELSE LET probe == tracker_check_recent_activity(g, username,
                 strftime(strptime(assignment_date) + inactivity_threshold_days))
         IN  IF Raised(probe) THEN probe ELSE Ret(probe.val.hit, probe.calls)

\* one assigned issue of the loop: its assignment date ad, then the check
\* chk; rest is the answer for the issues after it
TrackerIssueChecked(ad, chk, cs, rest) ==
    IF Raised(chk) THEN Raise(chk.exc, cs \o ad.calls \o chk.calls)
    ELSE IF chk.val THEN Ret(TRUE, cs \o ad.calls \o chk.calls)
    ELSE rest

TrackerIssueDated(g, username, ad, inactivity_threshold_days, clk, cs, rest) ==
    IF Raised(ad) THEN Raise(ad.exc, cs \o ad.calls)
    ELSE TrackerIssueChecked(ad,
             tracker_check_activity_since_assignment(g, username, ad.val,
                 inactivity_threshold_days, ReadAt(clk, GraceSite(clk))),
             cs, rest)

\* the requests one assigned issue adds when it does not end the loop
TrackerIssueCalls(g, username, issue_number, inactivity_threshold_days, clk) ==
    LET ad == tracker_get_issue_assignment_date(g, issue_number, username) IN
    IF Raised(ad) THEN ad.calls
    ELSE ad.calls \o tracker_check_activity_since_assignment(g, username, ad.val,
                         inactivity_threshold_days,
                         ReadAt(clk, GraceSite(clk))).calls

\* the loop over the assigned issues; no issue is skipped
RECURSIVE TrackerActiveSinceAssignment(_, _, _, _, _, _)
TrackerActiveSinceAssignment(g, username, issues, inactivity_threshold_days, clk, cs) ==
    IF issues = <<>> THEN Ret(FALSE, cs)
    ELSE TrackerIssueDated(g, username,
             tracker_get_issue_assignment_date(g, Head(issues).number, username),
             inactivity_threshold_days, clk, cs,
             TrackerActiveSinceAssignment(g, username, Tail(issues),
                 inactivity_threshold_days, NextIssue(clk),
                 cs \o TrackerIssueCalls(g, username, Head(issues).number,
                                         inactivity_threshold_days, clk)))

\* "determine if inactive based on our criteria"
TrackerVerdict(g, username, has_recent_activity, assigned_issues, inactivity_threshold_days, clk) ==
    IF has_recent_activity
    THEN Ret([is_inactive |-> FALSE, inactivity_reason |-> None], <<>>)
    ELSE IF Len(assigned_issues) > 0
    THEN VerdictOfIssues(TrackerActiveSinceAssignment(g, username,
             assigned_issues, inactivity_threshold_days, clk, <<>>))
    ELSE Ret([is_inactive |-> TRUE,
              inactivity_reason |-> "no recent activity and no assigned issues"],
             <<>>)

\* "check if user has no issues"
TrackerNoIssues(g, username, has_assigned_issues, no_issues_threshold_days, t) ==
    IF has_assigned_issues
    THEN Ret([has_no_issues |-> FALSE, last_assigned_date |-> NoDate], <<>>)
    ELSE NoIssuesOf(tracker_get_last_assigned_date(g, username),
                    no_issues_threshold_days, t)

\* "find the most recent activity": the first commit, then the first pull
\* request and the first comment where later; a commit is held as its date
TrackerLastActivity(commits, prs, comments) ==
    LastOverComments(comments,
        LastOverOpenPrs(Take(prs, 1),
            IF Truthy(commits) /\ Truthy(commits[1])
            THEN [date |-> commits[1], type |-> "commit"]
            ELSE [date |-> NoDate, type |-> None]))

\* "more detailed inactivity reasons"
TrackerRefineReason(is_inactive, inactivity_reason, commits, prs, merged_prs_count, comments, inactivity_threshold_days) ==
    IF is_inactive /\ inactivity_reason = None
    THEN IF Len(commits) = 0 THEN "no commits in past 30 days"
         ELSE IF Len(prs) = 0 THEN "no pull requests created recently"
         ELSE IF merged_prs_count = 0 THEN "no pull requests merged recently"
         ELSE IF Len(comments) = 0 THEN "no comments on issues/prs recently"
         ELSE "no activity in the past "
              \o ToString(inactivity_threshold_days) \o " days"
    ELSE inactivity_reason

\* activity_tracker.format_date_display on a well-formed date; it raises
\* ValueError on any other
tracker_format_date_display(date_str, t) ==
    IF ~Truthy(date_str) THEN "unknown"
    ELSE LET days_ago == t - strptime(date_str) IN
         IF days_ago = 0 THEN "today"
         ELSE IF days_ago = 1 THEN "yesterday"
         ELSE ToString(days_ago) \o " days ago"

\* the record of the return statement; t is the reading of format_date_display
TrackerRecord(username, cfg, t, assigned_issues, commits, prs, merged_prs_count, comments, last, verdict, ni) ==
    [username |-> username,
     stats |-> [commits |-> Len(commits),
                prs_created |-> Len(prs),
                prs_merged |-> merged_prs_count,
                issues_assigned |-> Len(assigned_issues),
                comments |-> Len(comments),
                last_activity_date |-> last.date,
                last_activity_type |-> last.type,
                last_activity_display |->
                    IF Truthy(last.date)
                    THEN tracker_format_date_display(last.date, t) ELSE "never"],
     has_assigned_issues |-> Len(assigned_issues) > 0,
     is_inactive |-> verdict.is_inactive,
     inactivity_reason |->
         TrackerRefineReason(verdict.is_inactive, verdict.inactivity_reason,
                             commits, prs, merged_prs_count, comments,
                             cfg.inactivity_threshold_days),
     has_no_issues |-> ni.has_no_issues,
     last_assigned_date |-> ni.last_assigned_date]

\* collect_developer_data from the no-issues lookup on
TrackerCollectNoIssues(username, cfg, clk, assigned_issues, commits, prs, merged_prs_count, comments, verdict, ni, cs) ==
    IF Raised(ni) THEN Raise(ni.exc, cs \o ni.calls)
    \* format_date_display(last_activity_date): strptime raises ValueError
    ELSE IF /\ Truthy(TrackerLastActivity(commits, prs, comments).date)
            /\ ~WellFormedDate(TrackerLastActivity(commits, prs, comments).date)
    THEN Raise(ValueErrorText, cs \o ni.calls)
    ELSE Ret(TrackerRecord(username, cfg, ReadAt(clk, DisplaySite),
                           assigned_issues, commits, prs, merged_prs_count,
                           comments, TrackerLastActivity(commits, prs, comments),
                           verdict.val, ni.val),
             cs \o ni.calls)

\* collect_developer_data from the verdict on
TrackerCollectVerdict(g, username, cfg, clk, assigned_issues, commits, prs, merged_prs_count, comments, verdict, cs) ==
    IF Raised(verdict) THEN Raise(verdict.exc, cs \o verdict.calls)
    ELSE TrackerCollectNoIssues(username, cfg, clk, assigned_issues, commits,
             prs, merged_prs_count, comments, verdict,
             TrackerNoIssues(g, username, Len(assigned_issues) > 0,
                             cfg.no_issues_threshold_days,
                             ReadAt(clk, NoIssuesSite)),
             cs \o verdict.calls)

\* collect_developer_data from the statistics queries on
TrackerCollectStats(g, username, cfg, clk, assigned, probe, commits, found, merged, comments) ==
    IF Raised(commits)
    THEN Raise(commits.exc, assigned.calls \o probe.calls \o commits.calls)
    ELSE IF Raised(found)
    THEN Raise(found.exc, assigned.calls \o probe.calls \o commits.calls
                          \o found.calls)
    ELSE IF Raised(merged)
    THEN Raise(merged.exc, assigned.calls \o probe.calls \o commits.calls
                           \o found.calls \o merged.calls)
    ELSE IF Raised(comments)
    THEN Raise(comments.exc, assigned.calls \o probe.calls \o commits.calls
                             \o found.calls \o merged.calls \o comments.calls)
    ELSE TrackerCollectVerdict(g, username, cfg, clk, assigned.val,
             commits.val, found.val.items, merged.val.total_count, comments.val,
             TrackerVerdict(g, username, probe.val.hit, assigned.val,
                            cfg.inactivity_threshold_days, clk),
             assigned.calls \o probe.calls \o commits.calls \o found.calls
             \o merged.calls \o comments.calls)

\* collect_developer_data from the first probe on
TrackerCollectProbe(g, username, cfg, clk, assigned, probe) ==
    IF Raised(probe) THEN Raise(probe.exc, assigned.calls \o probe.calls)
    ELSE TrackerCollectStats(g, username, cfg, clk, assigned, probe,
             tracker_get_user_commits(g, username,
                 strftime(ReadAt(clk, StatsSite) - StatsWindowDays), FALSE),
             tracker_get_user_prs(g, username,
                 strftime(ReadAt(clk, StatsSite) - StatsWindowDays), FALSE, FALSE),
             tracker_get_user_prs(g, username,
                 strftime(ReadAt(clk, StatsSite) - StatsWindowDays), FALSE, TRUE),
             tracker_get_user_comments(g, username,
                 strftime(ReadAt(clk, StatsSite) - StatsWindowDays), FALSE))

\* collect_developer_data from the assigned-issues listing on
TrackerCollectAssigned(g, username, cfg, clk, assigned) ==
    IF Raised(assigned) THEN assigned
    ELSE TrackerCollectProbe(g, username, cfg, clk, assigned,
             tracker_check_recent_activity(g, username,
                 strftime(ReadAt(clk, InactivitySite)
                          - cfg.inactivity_threshold_days)))

\* activity_tracker.collect_developer_data: the record it returns, or the
\* exception that leaves it, and the requests it issued
tracker_collect_developer_data(g, username, cfg, clk) ==
    TrackerCollectAssigned(g, username, cfg, clk,
                           tracker_get_assigned_issues(g, username))

-----------------------------------------------------------------------------
(* Roster: config.parse_active_devs, the Gateway's roster queries,          *)
(* data_collector.get_team_members                                          *)

Range(s) == {s[i] : i \in DOMAIN s}

\* str.split(","): the pieces between the commas, at least one piece
RECURSIVE Split(_, _)
Split(s, piece) ==
    IF s = <<>> THEN <<piece>>
    ELSE IF Head(s) = "," THEN <<piece>> \o Split(Tail(s), <<>>)
    ELSE Split(Tail(s), Append(piece, Head(s)))

\* str.strip(): without its leading and trailing blanks
RECURSIVE LStrip(_)
LStrip(s) == IF s # <<>> /\ Head(s) = " " THEN LStrip(Tail(s)) ELSE s
RECURSIVE RStrip(_)
RStrip(s) ==
    IF s # <<>> /\ s[Len(s)] = " " THEN RStrip(SubSeq(s, 1, Len(s) - 1)) ELSE s
\* strips the leading blanks only
StripLeadingOnly(s) == LStrip(s)

Strip(s) == RStrip(LStrip(s))

parse_active_devs(active_devs_list) ==
    IF ~Truthy(active_devs_list) THEN <<>>
    ELSE LET pieces == Split(active_devs_list, <<>>)
             devs == [i \in 1..Len(pieces) |-> Strip(pieces[i])]
         IN  SelectSeq(devs, Truthy)

\* activity_tracker.parse_active_devs, of the ACTIVE_DEVS string the script
\* read when it was loaded: the same statements
tracker_parse_active_devs(active_devs_list) == parse_active_devs(active_devs_list)

-----------------------------------------------------------------------------
(* config.py: load_config.  env holds os.environ and the two command-line *)
(* flags; a text variable is a string or Unset, a threshold variable a      *)
(* string of characters, each a digit 0..9 or (any other number) a          *)
(* character that is not a digit, or NotSet.                                 *)

Unset == <<"None">>
NotSet == <<-1>>
\* "not x" on a string or None
Falsy(x) == x = <<>> \/ x = Unset

\* what load_config returns for None
NoConfig == [none |-> TRUE]

\* the webhook is required whatever the flags
WebhookMissingAlways(cfg) == Falsy(cfg.discord_webhook_url)

WebhookMissing(cfg) == Falsy(cfg.discord_webhook_url) /\ ~cfg.dry_run

\* the validation of the settings built from the environment
Validated(cfg) ==
    IF Falsy(cfg.github_token)
    THEN [exc |-> None, config |-> NoConfig, error |-> "Error: GH_TOKEN not set"]
    ELSE IF WebhookMissing(cfg)
    THEN [exc |-> None, config |-> NoConfig,
          error |-> "Error: DISCORD_WEBHOOK_URL not set and not in dry-run mode"]
    ELSE IF Falsy(cfg.repository)
    THEN [exc |-> None, config |-> NoConfig, error |-> "Error: GH_REPOSITORY not set"]
    ELSE [exc |-> None, config |-> cfg, error |-> None]

load_config(env) ==
    IF \/ env.INACTIVITY_THRESHOLD_DAYS # NotSet /\ ~IsDecimal(env.INACTIVITY_THRESHOLD_DAYS)
       \/ env.NO_ISSUES_THRESHOLD_DAYS # NotSet /\ ~IsDecimal(env.NO_ISSUES_THRESHOLD_DAYS)
    THEN [exc |-> ValueErrorIntText, config |-> NoConfig, error |-> None]
    ELSE Validated(
           [github_token |-> env.GH_TOKEN,
            discord_webhook_url |-> env.DISCORD_WEBHOOK_URL,
            repository |-> env.GH_REPOSITORY,
            inactivity_threshold_days |->
                IF env.INACTIVITY_THRESHOLD_DAYS = NotSet THEN InactivityThresholdDefault
                ELSE int(env.INACTIVITY_THRESHOLD_DAYS),
            no_issues_threshold_days |->
                IF env.NO_ISSUES_THRESHOLD_DAYS = NotSet THEN NoIssuesThresholdDefault
                ELSE int(env.NO_ISSUES_THRESHOLD_DAYS),
            active_devs_list |-> IF env.ACTIVE_DEVS = Unset THEN <<>> ELSE env.ACTIVE_DEVS,
            debug_mode |-> env.debug,
            dry_run |-> env.dry_run])

-----------------------------------------------------------------------------
(* github_client.py: the roster listings *)

\* an item of a roster listing that carries no "login" key
NoLogin == <<"nokey">>

\* [x["login"] for x in items]: KeyError at an item without the key
Logins(items, cs) ==
    IF \E k \in 1..Len(items) : items[k] = NoLogin
    THEN Raise(KeyErrorLoginText, cs) ELSE Ret(items, cs)

get_contributors(g) ==
    IF Failed(g, "contributors") THEN Ret(<<>>, <<Call("contributors", 0, NoDate)>>)
    ELSE Logins(Take(g.contributors, PerPage), <<Call("contributors", 0, NoDate)>>)

get_collaborators(g) ==
    IF Failed(g, "collaborators") THEN Ret(<<>>, <<Call("collaborators", 0, NoDate)>>)
    ELSE Logins(g.collaborators, <<Call("collaborators", 0, NoDate)>>)

\* GitHubClient.get_teams: the teams, each standing for its members_url
get_teams(g) ==
    IF Failed(g, "teams") THEN Ret(<<>>, <<Call("teams", 0, NoDate)>>)
    ELSE Ret([k \in 1..Len(g.teams) |-> k], <<Call("teams", 0, NoDate)>>)

\* GitHubClient.get_team_members
team_members_of(g, team) ==
    IF Failed(g, "members") THEN Ret(<<>>, <<Call("members", team, NoDate)>>)
    ELSE Logins(g.teams[team], <<Call("members", team, NoDate)>>)

RECURSIVE ExtendMembers(_, _, _)
ExtendMembers(g, teams, acc) ==
    IF teams = <<>> THEN acc
    ELSE LET m == team_members_of(g, Head(teams)) IN
         IF Raised(m) THEN Raise(m.exc, acc.calls \o m.calls)
         ELSE ExtendMembers(g, Tail(teams), Ret(acc.val \o m.val, acc.calls \o m.calls))

\* list(set(xs)): the distinct elements, in an order the run does not fix
Orderings(S) == {q \in [1..Cardinality(S) -> S] : Range(q) = S}

\* the results list(set(all_members)) may give for the members gathered
Deduplicated(all_members) ==
    IF Raised(all_members) THEN {all_members}
    ELSE {Ret(q, all_members.calls) : q \in Orderings(Range(all_members.val))}

\* data_collector.get_team_members: the members of every team, then
\* list(set(all_members)); the set of the results a call may return
get_team_members(g) ==
    Deduplicated(ExtendMembers(g, get_teams(g).val, Ret(<<>>, get_teams(g).calls)))

-----------------------------------------------------------------------------
(* activity_tracker.py: its own roster listings.  A listing answered with a *)
(* status other than 200 is empty; an exception of requests.get, or of      *)
(* reading an item without a "login", leaves the function.                   *)

\* one listing: the logins of items, read from the answer to endpoint ep
TrackerListing(g, ep, n, items) ==
    IF RaisesAt(g, ep) THEN Raise(ConnectionErrorText, <<Call(ep, n, NoDate)>>)
    ELSE IF StatusFailed(g, ep) THEN Ret(<<>>, <<Call(ep, n, NoDate)>>)
    ELSE Logins(items, <<Call(ep, n, NoDate)>>)

tracker_get_all_contributors(g) ==
    TrackerListing(g, "contributors", 0, Take(g.contributors, PerPage))

tracker_get_collaborators(g) ==
    TrackerListing(g, "collaborators", 0, g.collaborators)

\* the loop of get_team_members over the teams: a team whose members are
\* refused is passed over
RECURSIVE TrackerExtendMembers(_, _, _)
TrackerExtendMembers(g, teams, acc) ==
    IF teams = <<>> THEN acc
    ELSE LET m == TrackerListing(g, "members", Head(teams), g.teams[Head(teams)]) IN
         IF Raised(m) THEN Raise(m.exc, acc.calls \o m.calls)
         ELSE TrackerExtendMembers(g, Tail(teams),
                                   Ret(acc.val \o m.val, acc.calls \o m.calls))

\* activity_tracker.get_team_members: the set of the results a call may
\* return; when the teams listing is refused it returns [] as it stands
tracker_get_team_members(g) ==
    IF RaisesAt(g, "teams")
    THEN {Raise(ConnectionErrorText, <<Call("teams", 0, NoDate)>>)}
    ELSE IF StatusFailed(g, "teams") THEN {Ret(<<>>, <<Call("teams", 0, NoDate)>>)}
    ELSE Deduplicated(TrackerExtendMembers(g, [k \in 1..Len(g.teams) |-> k],
                          Ret(<<>>, <<Call("teams", 0, NoDate)>>)))

-----------------------------------------------------------------------------
(* The Sink: notifier.py, and activity_tracker.py's own                      *)
(* send_discord_notification.  A card (embed) is a record with its title and *)
(* its fields; the text of a field is kept as the values interpolated into   *)
(* it.  hook is how the webhook answers a post: a status code, or NoResponse *)
(* when requests.post raises.                                                *)

\* str.split(sep)
RECURSIVE SplitAt(_, _, _)
SplitAt(str, sep, piece) ==
    IF str = <<>> THEN <<piece>>
    ELSE IF Head(str) = sep THEN <<piece>> \o SplitAt(Tail(str), sep, <<>>)
    ELSE SplitAt(Tail(str), sep, Append(piece, Head(str)))

\* repository.split("/")[1] if "/" in repository else repository
RepoName(repository) ==
    IF "/" \in Range(repository) THEN SplitAt(repository, "/", <<>>)[2] ELSE repository

\* the emoji of a count
Emoji(n, hot) == IF n > hot THEN "fire" ELSE IF n > 0 THEN "check" ELSE "blank"

\* sorted(..., reverse=True) that puts a record before those of equal total
InsertDescBeforeEqual(sorted_devs, dev, key) ==
    LET before == {i \in 1..Len(sorted_devs) : sorted_devs[i].key > key}
        n == Cardinality(before)
    IN  SubSeq(sorted_devs, 1, n) \o <<[key |-> key, dev |-> dev]>>
        \o SubSeq(sorted_devs, n + 1, Len(sorted_devs))

\* one step of the stable descending sort: dev goes after every record whose
\* key is at least its own
InsertDesc(sorted_devs, dev, key) ==
    LET before == {i \in 1..Len(sorted_devs) : sorted_devs[i].key >= key}
        n == Cardinality(before)
    IN  SubSeq(sorted_devs, 1, n) \o <<[key |-> key, dev |-> dev]>>
        \o SubSeq(sorted_devs, n + 1, Len(sorted_devs))

\* sorted(dev_stats, key=..., reverse=True): descending by key, records of
\* equal key in their input order; keys[i] is the key of dev_stats[i]
RECURSIVE SortedByKey(_, _)
SortedByKey(dev_stats, keys) ==
    IF dev_stats = <<>> THEN <<>>
    ELSE InsertDesc(SortedByKey(SubSeq(dev_stats, 1, Len(dev_stats) - 1), keys),
                    dev_stats[Len(dev_stats)], keys[Len(dev_stats)])

HeaderCard(repository, t) ==
    [title |-> "activity report",
     description |-> RepoName(repository),
     timestamp |-> strftime(t),
     footer |-> repository,
     fields |-> <<>>]

Mention(username) == <<"@">> \o username

\* notifier.py: the summary card
ActivityCard(data) ==
    LET keys == [i \in 1..Len(data) |->
                    data[i].stats.prs_created + data[i].stats.prs_merged
                    + data[i].stats.comments]
        sorted_devs == SortedByKey(data, keys)
    IN  [title |-> "developer activity summary",
         fields |->
           [i \in 1..Len(sorted_devs) |->
              LET st == sorted_devs[i].dev.stats IN
              [name |-> Mention(sorted_devs[i].dev.username),
               value |-> [pr_emoji |-> Emoji(st.prs_created, 3),
                          prs_created |-> st.prs_created,
                          merged_emoji |-> Emoji(st.prs_merged, 3),
                          prs_merged |-> st.prs_merged,
                          issues_emoji |-> Emoji(st.issues_assigned, 2),
                          issues_assigned |-> st.issues_assigned,
                          comments_emoji |-> Emoji(st.comments, 5),
                          comments |-> st.comments,
                          last_active |-> st.last_activity_display],
               inline |-> TRUE]]]

\* activity_tracker.py: the summary card, commits tracked
TrackerActivityCard(data) ==
    LET keys == [i \in 1..Len(data) |->
                    data[i].stats.commits + data[i].stats.prs_created
                    + data[i].stats.prs_merged + data[i].stats.comments]
        sorted_devs == SortedByKey(data, keys)
    IN  [title |-> "developer activity summary",
         fields |->
           [i \in 1..Len(sorted_devs) |->
              LET st == sorted_devs[i].dev.stats IN
              [name |-> Mention(sorted_devs[i].dev.username),
               value |-> [commit_emoji |-> Emoji(st.commits, 5),
                          commits |-> st.commits,
                          pr_emoji |-> Emoji(st.prs_created, 3),
                          prs_created |-> st.prs_created,
                          merged_emoji |-> Emoji(st.prs_merged, 3),
                          prs_merged |-> st.prs_merged,
                          issues_emoji |-> Emoji(st.issues_assigned, 2),
                          issues_assigned |-> st.issues_assigned,
                          comments_emoji |-> Emoji(st.comments, 5),
                          comments |-> st.comments,
                          last_active |-> st.last_activity_display],
               inline |-> TRUE]]]

\* an inactive card that lists every record
InactiveCardOfAll(data, inactivity_threshold_days) ==
    [title |-> "inactive developers",
     days |-> inactivity_threshold_days,
     fields |->
       [i \in 1..Len(data) |->
          [name |-> Mention(data[i].username),
           value |-> [last_active |-> data[i].stats.last_activity_display,
                      reason |-> data[i].inactivity_reason],
           inline |-> FALSE]]]

\* inactive_devs and its card (the same in both scripts)
InactiveCard(data, inactivity_threshold_days) ==
    LET inactive_devs == SelectSeq(data, LAMBDA dev : dev.is_inactive)
    IN  [title |-> "inactive developers",
         days |-> inactivity_threshold_days,
         fields |->
           [i \in 1..Len(inactive_devs) |->
              [name |-> Mention(inactive_devs[i].username),
               value |-> [last_active |-> inactive_devs[i].stats.last_activity_display,
                          reason |-> inactive_devs[i].inactivity_reason],
               inline |-> FALSE]]]

\* notifier.py: no_issues_devs and its card
NoIssuesCard(data, no_issues_threshold_days) ==
    LET no_issues_devs == SelectSeq(data, LAMBDA dev : dev.has_no_issues)
    IN  [title |-> "developers without assigned issues",
         days |-> no_issues_threshold_days,
         fields |->
           [i \in 1..Len(no_issues_devs) |->
              [name |-> Mention(no_issues_devs[i].username),
               value |-> [last_assigned |-> no_issues_devs[i].stats.last_activity_display],
               inline |-> FALSE]]]

\* activity_tracker.py: no_issues_devs and its card; format_date_display
\* reads the clock once for every entry that has a date, entry i at site i
TrackerNoIssuesCard(data, no_issues_threshold_days, clk) ==
    LET no_issues_devs == SelectSeq(data, LAMBDA dev : dev.has_no_issues)
    IN  [title |-> "developers without assigned issues",
         days |-> no_issues_threshold_days,
         fields |->
           [i \in 1..Len(no_issues_devs) |->
              [name |-> Mention(no_issues_devs[i].username),
               value |-> [last_assigned |->
                             tracker_format_date_display(
                                 no_issues_devs[i].last_assigned_date,
                                 ReadAt(clk, i))],
               inline |-> FALSE]]]

\* the site of the timestamp of the header card, read after the entries of
\* no_issues_devs were built
HeaderSite(data) == Len(SelectSeq(data, LAMBDA dev : dev.has_no_issues)) + 1

\* the sites of one call of activity_tracker.send_discord_notification at
\* which midnight may have passed since the site before
SinkFlips(data) == 2..HeaderSite(data)

RecsCard(for_inactive) ==
    [title |-> "recommendations",
     fields |-> <<[name |-> "for inactive developers",
                   value |-> for_inactive, inline |-> FALSE],
                  [name |-> "for developers without issues",
                   value |-> "- pick up new issues from the backlog\n- help review open prs",
                   inline |-> FALSE]>>]

\* the success lines after a delivered post
Delivered(level, data) ==
    <<[level |-> level, text |-> "successfully sent discord notification"]>>
    \o (IF \E i \in 1..Len(data) : data[i].is_inactive
        THEN <<[level |-> level, text |-> "inactive developers"]>> ELSE <<>>)
    \o (IF \E i \in 1..Len(data) : data[i].has_no_issues
        THEN <<[level |-> level, text |-> "developers without assigned issues"]>> ELSE <<>>)
    \o <<[level |-> level, text |-> "included activity summary"]>>

\* the status lines of a refused post
Refused(level) ==
    <<[level |-> level, text |-> "error sending discord notification: status"],
      [level |-> level, text |-> "response.text"]>>

\* the embeds without the card that opens them
EmbedsWithoutHeader(data, cfg, t) ==
    <<ActivityCard(data)>>
    \o (IF \E i \in 1..Len(data) : data[i].is_inactive
        THEN <<InactiveCard(data, cfg.inactivity_threshold_days)>> ELSE <<>>)
    \o (IF \E i \in 1..Len(data) : data[i].has_no_issues
        THEN <<NoIssuesCard(data, cfg.no_issues_threshold_days)>> ELSE <<>>)
    \o <<RecsCard("- provide status updates on discord\n- create and review pull requests")>>

\* notifier.send_discord_notification: the embeds of a non-empty list
Embeds(data, cfg, t) ==
    <<HeaderCard(cfg.repository, t), ActivityCard(data)>>
    \o (IF \E i \in 1..Len(data) : data[i].is_inactive
        THEN <<InactiveCard(data, cfg.inactivity_threshold_days)>> ELSE <<>>)
    \o (IF \E i \in 1..Len(data) : data[i].has_no_issues
        THEN <<NoIssuesCard(data, cfg.no_issues_threshold_days)>> ELSE <<>>)
    \o <<RecsCard("- provide status updates on discord\n- create and review pull requests")>>

\* a Sink that posts in dry-run mode too
DryRunIgnored(cfg) == FALSE

\* "skip if in dry-run mode"
DryRun(cfg) == cfg.dry_run

\* notifier.send_discord_notification.  posts holds the payloads handed to
\* requests.post, exc the exception that leaves the function
send_discord_notification(data, cfg, hook, t) ==
    IF data = <<>>
    THEN [posts |-> <<>>, exc |-> None,
          log |-> <<[level |-> "info", text |-> "no developers to notify"]>>]
    ELSE IF DryRun(cfg)
    THEN [posts |-> <<>>, exc |-> None,
          log |-> <<[level |-> "info",
                     text |-> "dry run mode - skipping discord notification"]>>]
    ELSE LET payload == [embeds |-> Embeds(data, cfg, t)] IN
         [posts |-> <<payload>>, exc |-> None,
          log |-> IF hook = NoResponse
                  THEN <<[level |-> "error",
                          text |-> "error sending discord notification: "
                                   \o ConnectionErrorText]>>
                  ELSE IF hook \notin {200, 204} THEN Refused("error")
                  ELSE Delivered("info", data)]

\* activity_tracker.send_discord_notification: the embeds of a non-empty list
TrackerEmbeds(data, cfg, clk) ==
    <<HeaderCard(cfg.repository, ReadAt(clk, HeaderSite(data))),
      TrackerActivityCard(data)>>
    \o (IF \E i \in 1..Len(data) : data[i].is_inactive
        THEN <<InactiveCard(data, cfg.inactivity_threshold_days)>> ELSE <<>>)
    \o (IF \E i \in 1..Len(data) : data[i].has_no_issues
        THEN <<TrackerNoIssuesCard(data, cfg.no_issues_threshold_days, clk)>>
        ELSE <<>>)
    \o <<RecsCard("- provide status updates on discord\n- commit your work in progress daily")>>

\* activity_tracker.send_discord_notification: it knows no dry-run, and
\* neither format_date_display nor its post stands inside a try
tracker_send_discord_notification(data, cfg, hook, clk) ==
    IF data = <<>>
    THEN [posts |-> <<>>, exc |-> None,
          log |-> <<[level |-> "print", text |-> "no developers to notify"]>>]
    ELSE IF \E i \in 1..Len(data) :
                /\ data[i].has_no_issues
                /\ Truthy(data[i].last_assigned_date)
                /\ ~WellFormedDate(data[i].last_assigned_date)
    THEN [posts |-> <<>>, exc |-> ValueErrorText, log |-> <<>>]
    ELSE LET payload == [embeds |-> TrackerEmbeds(data, cfg, clk)] IN
         IF hook = NoResponse
         THEN [posts |-> <<payload>>, exc |-> ConnectionErrorText, log |-> <<>>]
         ELSE [posts |-> <<payload>>, exc |-> None,
               log |-> IF hook \notin {200, 204} THEN Refused("print")
                       ELSE Delivered("print", data)]

-----------------------------------------------------------------------------
(* The orchestrator: main *)

\* the client object: the platform's answers and the client's own fields
GitHubClient ==
    [request_count |-> request_count,
     rate_limit_remaining |-> rate_limit_remaining,
     rate_limit_reset |-> rate_limit_reset] @@ api

StartDay == 100
StartSecond == 1793000000
\* the process has not exited
NoExit == -1

\* a day passes between two steps of a run
Tick ==
    /\ pc \in {"start", "collect", "main", "main_loop"}
    /\ now < StartDay + MaxTicks
    /\ now' = now + 1
    /\ UNCHANGED <<api, config, pc, all_developers, all_data, clock_log,
                   request_count, roster_trace, traces, sent, environ,
                   gatewayVars, sinkVars, exit_code>>

\* the client after the requests of the trace cs: its counter, and its
\* rate-limit fields and the seconds it slept, request by request
ClientAfter(cs) ==
    LET st == RateLimitAfter(GitHubClient, cs,
                  [rate_limit_remaining |-> rate_limit_remaining,
                   rate_limit_reset |-> rate_limit_reset,
                   seconds |-> seconds])
    IN  /\ request_count' = request_count + Len(Requests(cs))
        /\ rate_limit_remaining' = st.rate_limit_remaining
        /\ rate_limit_reset' = st.rate_limit_reset
        /\ seconds' = st.seconds
        /\ UNCHANGED http_log

\* an exception leaves the run: it ends with a traceback
Uncaught(cs) ==
    /\ pc' = "crashed"
    /\ exit_code' = 1
    /\ roster_trace' = cs
    /\ UNCHANGED all_developers

\* the roster once the three listings answered; the run goes on at resolved_pc
Resolved(contributors, team_members, collaborators, resolved_pc) ==
    IF Raised(contributors) THEN Uncaught(contributors.calls)
    ELSE IF Raised(team_members)
    THEN Uncaught(contributors.calls \o team_members.calls)
    ELSE IF Raised(collaborators)
    THEN Uncaught(contributors.calls \o team_members.calls \o collaborators.calls)
    \* the set union, as a list: its order is not fixed
    ELSE /\ all_developers' \in
                Orderings(Range(contributors.val) \cup Range(team_members.val)
                          \cup Range(collaborators.val))
         /\ roster_trace' = contributors.calls \o team_members.calls
                            \o collaborators.calls
         /\ pc' = resolved_pc
         /\ UNCHANGED exit_code

\* the requests of the roster resolution that were issued
ResolvedCalls(contributors, team_members, collaborators) ==
    IF Raised(contributors) THEN contributors.calls
    ELSE IF Raised(team_members) THEN contributors.calls \o team_members.calls
    ELSE contributors.calls \o team_members.calls \o collaborators.calls

\* the modular scripts, "get developers to track": the configured list, or
\* the union of the Gateway's three listings
ResolveRoster ==
    /\ pc = "start"
    /\ LET active_devs == parse_active_devs(config.active_devs_list) IN
       IF Truthy(active_devs)
       THEN /\ all_developers' = active_devs
            /\ pc' = "collect"
            /\ UNCHANGED <<roster_trace, request_count, exit_code, gatewayVars>>
       ELSE \E team_members \in get_team_members(GitHubClient) :
              /\ Resolved(get_contributors(GitHubClient), team_members,
                          get_collaborators(GitHubClient), "collect")
              /\ ClientAfter(ResolvedCalls(get_contributors(GitHubClient),
                                           team_members,
                                           get_collaborators(GitHubClient)))
    /\ UNCHANGED <<api, config, now, all_data, clock_log, traces, sent, environ,
                   sinkVars>>

\* the modular scripts, one turn of the loop over the roster:
\* data_collector.collect_developer_data(github, username, config).  Midnight
\* may pass while the call runs, at any of its clock readings
CollectNext ==
    /\ pc = "collect"
    /\ Len(all_data) < Len(all_developers)
    /\ \E flip \in {NoFlip} \cup Flips(GitHubClient, all_developers[Len(all_data) + 1]) :
         /\ flip # NoFlip => now < StartDay + MaxTicks
         /\ LET username == all_developers[Len(all_data) + 1]
                r == collect_developer_data(GitHubClient, username, config,
                                            Clock(now, flip))
            IN  /\ all_data' = Append(all_data, r.rec)
                /\ traces' = Append(traces, r.calls)
                /\ ClientAfter(r.calls)
         /\ clock_log' = Append(clock_log, Clock(now, flip))
         /\ now' = DayAfter(Clock(now, flip))
    /\ UNCHANGED <<api, config, pc, all_developers, roster_trace, sent,
                   environ, sinkVars, exit_code>>

\* the modular scripts, after the loop: the records are handed to
\* notifier.send_discord_notification, which reads the clock once
Notify ==
    /\ pc = "collect"
    /\ Len(all_data) = Len(all_developers)
    /\ LET r == send_discord_notification(all_data, config, api.webhook, now) IN
          /\ posts' = posts \o r.posts
          /\ sink_log' = sink_log \o r.log
    /\ notified_by' = "notifier"
    /\ sink_clock' = <<Clock(now, NoFlip)>>
    /\ sent' = all_data
    /\ pc' = "done"
    /\ exit_code' = 0
    /\ UNCHANGED <<api, config, now, all_developers, all_data, clock_log,
                   request_count, roster_trace, traces, environ, gatewayVars>>

\* the configuration is loaded before anything else; without one the run
\* ends with a non-zero exit
LoadConfig ==
    /\ pc = "load"
    /\ LET r == load_config(environ) IN
          /\ config' = r.config
          /\ sink_log' = IF r.error = None THEN sink_log
                         ELSE Append(sink_log, [level |-> "error", text |-> r.error])
          /\ pc' = IF r.exc # None THEN "crashed"
                   ELSE IF r.config = NoConfig THEN "aborted" ELSE "start"
          /\ exit_code' = IF r.exc # None \/ r.config = NoConfig THEN 1 ELSE exit_code
    /\ UNCHANGED <<api, now, all_developers, all_data, clock_log, request_count,
                   roster_trace, traces, sent, environ, gatewayVars, posts,
                   notified_by, sink_clock>>

\* the modular scripts
Next == Tick \/ ResolveRoster \/ CollectNext \/ Notify

NextConfig == LoadConfig \/ Next

-----------------------------------------------------------------------------
(* activity_tracker.py: main.  It holds no client object: request_count and  *)
(* the rate-limit fields are not its own.  Nothing in it catches an          *)
(* exception.                                                                *)

\* main, "get developers to track"
MainRoster ==
    /\ pc = "main"
    /\ LET active_devs == tracker_parse_active_devs(config.active_devs_list) IN
       IF Truthy(active_devs)
       THEN /\ all_developers' = active_devs
            /\ pc' = "main_loop"
            /\ UNCHANGED <<roster_trace, exit_code>>
       ELSE \E team_members \in tracker_get_team_members(api) :
              /\ Resolved(tracker_get_all_contributors(api), team_members,
                          tracker_get_collaborators(api), "main_loop")
    /\ UNCHANGED <<api, config, now, all_data, clock_log, request_count, traces,
                   sent, environ, gatewayVars, sinkVars>>

\* main, one turn of "for username in all_developers":
\* collect_developer_data(username), the script's own
MainCollect ==
    /\ pc = "main_loop"
    /\ Len(all_data) < Len(all_developers)
    /\ \E flip \in {NoFlip} \cup Flips(api, all_developers[Len(all_data) + 1]) :
         /\ flip # NoFlip => now < StartDay + MaxTicks
         /\ LET r == tracker_collect_developer_data(api,
                         all_developers[Len(all_data) + 1], config,
                         Clock(now, flip))
            IN  /\ traces' = Append(traces, r.calls)
                /\ IF Raised(r)
                   THEN /\ pc' = "crashed"
                        /\ exit_code' = 1
                        /\ UNCHANGED all_data
                   ELSE /\ all_data' = Append(all_data, r.val)
                        /\ UNCHANGED <<pc, exit_code>>
         /\ clock_log' = Append(clock_log, Clock(now, flip))
         /\ now' = DayAfter(Clock(now, flip))
    /\ UNCHANGED <<api, config, all_developers, request_count, roster_trace,
                   sent, environ, gatewayVars, sinkVars>>

\* main, after the loop: send_discord_notification(all_data), the script's own
MainNotify ==
    /\ pc = "main_loop"
    /\ Len(all_data) = Len(all_developers)
    /\ \E flip \in {NoFlip} \cup SinkFlips(all_data) :
         /\ flip # NoFlip => now < StartDay + MaxTicks
         /\ LET r == tracker_send_discord_notification(all_data, config,
                         api.webhook, Clock(now, flip))
            IN  /\ posts' = posts \o r.posts
                /\ sink_log' = sink_log \o r.log
                /\ pc' = IF r.exc = None THEN "done" ELSE "crashed"
                /\ exit_code' = IF r.exc = None THEN 0 ELSE 1
         /\ sink_clock' = <<Clock(now, flip)>>
         /\ now' = DayAfter(Clock(now, flip))
    /\ sent' = all_data
    /\ notified_by' = "activity_tracker"
    /\ UNCHANGED <<api, config, all_developers, all_data, clock_log,
                   request_count, roster_trace, traces, environ, gatewayVars>>

MainNext == Tick \/ MainRoster \/ MainCollect \/ MainNotify

-----------------------------------------------------------------------------
(* Snapshots the specifications start from *)

A == <<"a">>
B == <<"b">>

Stamp(age) == strftime(StartDay - age)

Assigned(login, date) == [event |-> "assigned", assignee |-> login, created_at |-> date]
\* an event of another kind; it carries no assignee
Labeled(date) == [event |-> "labeled", assignee |-> JsonNull, created_at |-> date]

Pr(created, updated, login, merged) ==
    [created_at |-> Stamp(created), updated_at |-> Stamp(updated),
     user |-> login, merged |-> merged]
OpenPr(updated, login) == [updated_at |-> Stamp(updated), user |-> login]
Comment(updated) == [updated_at |-> Stamp(updated)]

BSeq(S, n) == UNION {[1..k -> S] : k \in 0..n}

\* an issue of a listing: what its "number" is, and its timeline
IssueOpt(k, tl) == [k |-> k, tl |-> tl]
IssueItems(opts, offset) ==
    [p \in 1..Len(opts) |->
        [number |-> IF opts[p].k = "null" THEN NullNumber
                    ELSE IF opts[p].k = "nokey" THEN MissingKey ELSE offset + p,
         pull_request |-> opts[p].k = "pr"]]
Timelines(issue_opts, history_opts) ==
    [n \in (1..Len(issue_opts)) \cup {MaxIssues + q : q \in 1..Len(history_opts)} |->
        IF n <= Len(issue_opts) /\ n <= MaxIssues THEN issue_opts[n].tl
        ELSE history_opts[n - MaxIssues].tl]

DevData(issue_opts, history_opts, prs, open_prs, comments) ==
    [issues |-> IssueItems(issue_opts, 0),
     history |-> IssueItems(history_opts, MaxIssues),
     prs |-> prs, open_prs |-> open_prs, comments |-> comments]

\* the same developer with the dates of their commits, newest first
Committing(dev, commits) == [commits |-> commits] @@ dev

\* an environment with the required variables set and the thresholds unset
DefaultEnviron(list) ==
    [GH_TOKEN |-> <<"t">>, DISCORD_WEBHOOK_URL |-> <<"u">>,
     GH_REPOSITORY |-> <<"o", "/", "r">>,
     INACTIVITY_THRESHOLD_DAYS |-> NotSet, NO_ISSUES_THRESHOLD_DAYS |-> NotSet,
     ACTIVE_DEVS |-> list, debug |-> FALSE, dry_run |-> FALSE]

\* the configuration loaded from it
DefaultConfig(list) == load_config(DefaultEnviron(list)).config

\* everything but the snapshot and the configuration, for a run that starts
\* at start_pc
InitFrom(start_pc) ==
    /\ now = StartDay
    /\ pc = start_pc
    /\ all_developers = <<>>
    /\ all_data = <<>>
    /\ clock_log = <<>>
    /\ request_count = 0
    /\ roster_trace = <<>>
    /\ traces = <<>>
    /\ sent = <<>>
    /\ rate_limit_remaining = RemainingDefault
    /\ rate_limit_reset = ResetDefault
    /\ seconds = StartSecond
    /\ http_log = <<>>
    /\ posts = <<>>
    /\ sink_log = <<>>
    /\ notified_by = None
    /\ sink_clock = <<>>
    /\ exit_code = NoExit
    /\ environ = DefaultEnviron(config.active_devs_list)

\* the modular scripts, the configuration loaded
InitRest == InitFrom("start")

\* activity_tracker.py, loaded, at the call of main
InitMainRest == InitFrom("main")

-----------------------------------------------------------------------------
(* SpecVerdict: one developer, a; the assigned issues, their timelines and  *)
(* the evidence the probe looks at vary.  Ages are days before StartDay.    *)

VerdictTimelines ==
    { <<>>,
      <<Assigned(A, Stamp(6))>>,
      <<Assigned(A, Stamp(7))>>,
      <<Assigned(A, Stamp(15))>>,
      <<Labeled(Stamp(20)), Assigned(B, Stamp(6)), Assigned(A, Stamp(16))>>,
      <<Assigned(A, BadDate(StartDay - 2))>>,
      <<Assigned(JsonNull, Stamp(6))>> }

VerdictIssueOpts ==
    {IssueOpt("pr", <<>>), IssueOpt("null", <<>>), IssueOpt("nokey", <<>>)}
    \cup {IssueOpt("ok", tl) : tl \in VerdictTimelines}

VerdictPrs ==
    { <<>>,
      <<Pr(7, 7, A, FALSE)>>,
      <<Pr(8, 8, A, TRUE)>>,
      <<Pr(9, 0, JsonNull, FALSE)>> }

VerdictOpenPrs ==
    { <<>>, <<OpenPr(7, A)>>, <<OpenPr(8, A)>> }

VerdictComments ==
    { <<>>, <<Comment(0)>>, <<Comment(8)>> }

VerdictHistory ==
    { <<>>,
      <<IssueOpt("ok", <<Assigned(A, Stamp(40))>>)>>,
      <<IssueOpt("ok", <<Assigned(JsonNull, Stamp(5))>>)>> }

\* the issues after the first of a listing
VerdictLaterOpts ==
    { IssueOpt("null", <<>>),
      IssueOpt("ok", <<Assigned(A, Stamp(6))>>),
      IssueOpt("ok", <<Assigned(A, Stamp(15))>>),
      IssueOpt("ok", <<Assigned(A, BadDate(StartDay - 2))>>) }

VerdictIssues ==
    {<<>>} \cup { <<first>> \o rest : first \in VerdictIssueOpts,
                                     rest \in BSeq(VerdictLaterOpts, MaxIssues - 1) }

InitVerdict ==
    /\ \E io \in VerdictIssues, ho \in VerdictHistory,
          prs \in VerdictPrs, open_prs \in VerdictOpenPrs,
          comments \in VerdictComments :
          api = [dev |-> [u \in {A} |-> DevData(io, ho, prs, open_prs, comments)],
                 timeline |-> Timelines(io, ho),
                 fail |-> {}, fail_timeline |-> {},
                 contributors |-> <<A>>, teams |-> <<>>, collaborators |-> <<>>,
                 webhook |-> 204]
    /\ config = DefaultConfig(<<"a">>)
    /\ InitRest

SpecVerdict == InitVerdict /\ [][Next]_vars

-----------------------------------------------------------------------------
(* What the properties speak of: classification i of the run, its developer, *)
(* its clock readings, its record and its trace.  The "now" of a rule is the *)
(* reading the call took where it applies the rule.                          *)

Classified == 1..Len(all_data)
Threshold == config.inactivity_threshold_days

\* the readings of classification i: for the inactivity cutoff, the no-issues
\* cutoff and the statistics cutoff, for the grace period of the assigned
\* issue at position k of the listing, and for the display of the last activity
InactivityNow(i) == ReadAt(clock_log[i], InactivitySite)
NoIssuesNow(i) == ReadAt(clock_log[i], NoIssuesSite)
StatsNow(i) == ReadAt(clock_log[i], StatsSite)
GraceNow(i, k) == ReadAt(clock_log[i], StatsSite + k)
DisplayNow(i) == ReadAt(clock_log[i], DisplaySite)
\* midnight did not pass during classification i
SameDay(i) == clock_log[i].flip = NoFlip

CutoffOf(i) == strftime(InactivityNow(i) - Threshold)

\* the Gateway reports evidence on/after cutoff
EvidenceReported(username, cutoff) ==
    \/ Truthy(get_user_prs(GitHubClient, username, cutoff, TRUE, FALSE).val.items)
    \/ OpenPrUpdatedSince(get_user_open_prs(GitHubClient, username).val, cutoff)
    \/ Truthy(get_user_comments(GitHubClient, username, cutoff, TRUE).val)

\* the probe found nothing at cutoff
ProbeMisses(username, cutoff) ==
    LET probe == check_recent_activity(GitHubClient, username, cutoff)
    IN  ~Raised(probe) /\ ~probe.val.hit

\* get_assigned_issues answers with no issue
NoAssignedIssues(username) ==
    LET a == get_assigned_issues(GitHubClient, username)
    IN  ~Raised(a) /\ a.val = <<>>

\* the assignment timestamp the Gateway resolves for an issue of the listing:
\* NoDate when the issue has no number, the lookup raises or finds none
ResolvedDate(issue, username) ==
    IF issue.number = NullNumber THEN NoDate
    ELSE LET ad == get_issue_assignment_date(GitHubClient, issue.number, username)
         IN  IF Raised(ad) \/ ~WellFormedDate(ad.val) THEN NoDate ELSE ad.val

CountCalls(cs, ep) == Len(SelectSeq(cs, LAMBDA entry : entry.ep = ep))

\* C1: whenever the Gateway reports a pull request created on/after
\* now - inactivityThresholdDays, an open pull request updated on/after it or a
\* comment updated on/after it, the developer's record has is_inactive = false.
C1_EvidenceMeansActive ==
    \A i \in Classified :
        EvidenceReported(all_developers[i], CutoffOf(i))
            => all_data[i].is_inactive = FALSE

\* C2: a developer for whom get_assigned_issues returns no issue and the probe
\* at now - inactivityThresholdDays finds nothing is inactive, the reason being
\* exactly "no recent activity and no assigned issues".
C2_NoIssuesNoEvidence ==
    \A i \in Classified :
        (/\ NoAssignedIssues(all_developers[i])
         /\ ProbeMisses(all_developers[i], CutoffOf(i)))
            => /\ all_data[i].is_inactive = TRUE
               /\ all_data[i].inactivity_reason
                      = "no recent activity and no assigned issues"

\* the developer's only assigned issue is in its grace period at t
OnlyIssueInGrace(username, t) ==
    LET a == get_assigned_issues(GitHubClient, username)
    IN  /\ ~Raised(a)
        /\ Len(a.val) = 1
        /\ Truthy(ResolvedDate(a.val[1], username))
        /\ strptime(ResolvedDate(a.val[1], username)) + Threshold > t

\* the platform holds no pull request, open pull request or comment of the login
NoEvidenceExists(username) ==
    /\ DevOf(GitHubClient, username).prs = <<>>
    /\ DevOf(GitHubClient, username).open_prs = <<>>
    /\ DevOf(GitHubClient, username).comments = <<>>

\* the requests of one probe and of the statistics queries, and no other probe
OneProbeOnly(cs) ==
    /\ CountCalls(cs, "search_prs") = 2
    /\ CountCalls(cs, "pulls") = 2
    /\ CountCalls(cs, "search_comments") = 2

\* C3: grace period.  A developer whose only assigned issue was assigned less
\* than inactivityThresholdDays days ago (assignment + threshold strictly after
\* now) and who has no pull request, open pull request or comment at all is
\* reported is_inactive = false, and no second probe is run for the issue.
C3_GracePeriod ==
    \A i \in Classified :
        (/\ OnlyIssueInGrace(all_developers[i], GraceNow(i, 1))
         /\ NoEvidenceExists(all_developers[i]))
            => /\ all_data[i].is_inactive = FALSE
               /\ OneProbeOnly(traces[i])

\* the grace period ends the day after the classification: k = threshold - 1
C3_Witness ==
    \E i \in Classified :
        /\ OnlyIssueInGrace(all_developers[i], GraceNow(i, 1))
        /\ NoEvidenceExists(all_developers[i])
        /\ LET a == get_assigned_issues(GitHubClient, all_developers[i])
           IN  strptime(ResolvedDate(a.val[1], all_developers[i])) + Threshold
                   = GraceNow(i, 1) + 1
        /\ all_data[i].is_inactive = FALSE

\* every assigned issue's grace period is over when classification i tests
\* it, and the probe at its end finds nothing
AllGraceExpired(username, i) ==
    LET a == get_assigned_issues(GitHubClient, username)
    IN  /\ ~Raised(a)
        /\ Len(a.val) >= 1
        /\ \A k \in 1..Len(a.val) :
              /\ Truthy(ResolvedDate(a.val[k], username))
              /\ strptime(ResolvedDate(a.val[k], username)) + Threshold
                     <= GraceNow(i, k)
              /\ ProbeMisses(username,
                     strftime(strptime(ResolvedDate(a.val[k], username))
                              + Threshold))

\* C4: grace period expiry.  When the first probe found nothing, every
\* assigned issue was assigned at least inactivityThresholdDays days ago (the
\* day assignment + threshold = now included) and no evidence exists on/after
\* assignment + threshold, the record has is_inactive = true and the reason
\* exactly "no activity since issue assignment".
C4_GraceExpired ==
    \A i \in Classified :
        (/\ ProbeMisses(all_developers[i], CutoffOf(i))
         /\ AllGraceExpired(all_developers[i], i))
            => /\ all_data[i].is_inactive = TRUE
               /\ all_data[i].inactivity_reason
                      = "no activity since issue assignment"

\* C6: in every record, normal or fallback, inactivity_reason is present if
\* and only if is_inactive is true.
C6_ReasonIffInactive ==
    \A i \in Classified :
        (all_data[i].inactivity_reason # None) <=> all_data[i].is_inactive

\* an active record, which has no reason
C6_Witness ==
    \E i \in Classified :
        /\ all_data[i].is_inactive = FALSE
        /\ all_data[i].inactivity_reason = None
        /\ all_data[i].stats.prs_created > 0

-----------------------------------------------------------------------------
(* SpecNoIssues: one developer, a; what the "ever assigned" search returns   *)
(* and the timelines of those issues vary around the no-issues threshold.    *)

NoIssuesTimelines ==
    { <<>>,
      <<Assigned(A, Stamp(2))>>,
      <<Assigned(A, Stamp(3))>>,
      <<Assigned(A, Stamp(4))>>,
      <<Assigned(A, Stamp(40)), Assigned(A, Stamp(1))>>,
      <<Assigned(B, Stamp(1)), Assigned(A, Stamp(5))>>,
      <<Assigned(A, BadDate(StartDay - 9))>>,
      <<Assigned(JsonNull, Stamp(5))>> }

NoIssuesHistoryOpts ==
    {IssueOpt("nokey", <<>>)} \cup {IssueOpt("ok", tl) : tl \in NoIssuesTimelines}

NoIssuesAssigned ==
    { <<>>, <<IssueOpt("ok", <<Assigned(A, Stamp(2))>>)>> }

NoIssuesPrs ==
    { <<>>, <<Pr(1, 1, A, FALSE)>>, <<Pr(9, 0, JsonNull, FALSE)>> }

InitNoIssues ==
    /\ \E io \in NoIssuesAssigned, ho \in BSeq(NoIssuesHistoryOpts, MaxHistory),
          prs \in NoIssuesPrs :
          api = [dev |-> [u \in {A} |-> DevData(io, ho, prs, <<>>, <<>>)],
                 timeline |-> Timelines(io, ho),
                 fail |-> {}, fail_timeline |-> {},
                 contributors |-> <<A>>, teams |-> <<>>, collaborators |-> <<>>,
                 webhook |-> 204]
    /\ config = DefaultConfig(<<"a">>)
    /\ InitRest

SpecNoIssues == InitNoIssues /\ [][Next]_vars

\* classification i ended in the except branch of collect_developer_data
FellBack(i) ==
    \E k \in 1..Len(traces[i]) :
        /\ traces[i][k].ep = "logger.error"
        /\ traces[i][k].where = "collect_developer_data"

\* what get_last_assigned_date returned to classification i: the Gateway's
\* answer when the lookup was made and returned, otherwise what the record holds
LastAssignedReturned(i) ==
    IF ~FellBack(i) /\ ~all_data[i].has_assigned_issues
    THEN get_last_assigned_date(GitHubClient, all_developers[i]).val
    ELSE all_data[i].last_assigned_date

\* C5: in every record has_no_issues is true if and only if has_assigned_issues
\* is false and get_last_assigned_date returned absent or a timestamp at or
\* before now - noIssuesThresholdDays (the boundary day included).
C5_NoIssuesIff ==
    \A i \in Classified :
        all_data[i].has_no_issues
            <=> /\ ~all_data[i].has_assigned_issues
                /\ \/ ~Truthy(LastAssignedReturned(i))
                   \/ strptime(LastAssignedReturned(i))
                          <= NoIssuesNow(i) - config.no_issues_threshold_days

\* the last assignment lies exactly noIssuesThresholdDays days back
C5_Witness ==
    \E i \in Classified :
        /\ ~FellBack(i)
        /\ ~all_data[i].has_assigned_issues
        /\ Truthy(LastAssignedReturned(i))
        /\ strptime(LastAssignedReturned(i))
               = NoIssuesNow(i) - config.no_issues_threshold_days
        /\ all_data[i].has_no_issues

\* the created_at of every "assigned" event naming username, over the
\* timelines of all the issues the "ever assigned" search returns
AssignedTo(events, username) ==
    { events[e].created_at :
        e \in {x \in DOMAIN events : /\ events[x].event = "assigned"
                                     /\ events[x].assignee = username} }

AssignmentDates(username) ==
    LET items == DevOf(GitHubClient, username).history
    IN  UNION { AssignedTo(get_issue_timeline(GitHubClient, items[k].number).val,
                           username) :
                k \in {j \in 1..Len(items) : items[j].number # MissingKey} }

MostRecentAssignment(username) ==
    IF AssignmentDates(username) = {} THEN NoDate
    ELSE CHOOSE d \in AssignmentDates(username) :
             \A e \in AssignmentDates(username) : ~StrLess(d, e)

\* C10: get_last_assigned_date returns the maximum created_at over all the
\* "assigned" events naming the developer in the issues ever assigned to them,
\* absent when there is none, and that value is the record's
\* last_assigned_date.
C10_LastAssignedIsMostRecent ==
    \A i \in Classified :
        LET l == get_last_assigned_date(GitHubClient, all_developers[i])
        IN  ~Raised(l) =>
               /\ l.val = MostRecentAssignment(all_developers[i])
               /\ (~FellBack(i) /\ ~all_data[i].has_assigned_issues)
                      => all_data[i].last_assigned_date
                             = MostRecentAssignment(all_developers[i])

-----------------------------------------------------------------------------
(* Spec: a whole run over two developers, a and b.  The ACTIVE_DEVS string,  *)
(* the roster sources (the contributors listing can hold an item without a   *)
(* "login"), a's data (which can make the classification raise) and the      *)
(* failing endpoints vary.                                                   *)

ListChars == {"a", "b", " ", ","}

RunDataA ==
    { DevData(<<>>, <<>>, <<>>, <<>>, <<>>),
      \* an assignment timestamp strptime rejects
      DevData(<<IssueOpt("ok", <<Assigned(A, BadDate(StartDay - 2))>>)>>,
              <<>>, <<>>, <<>>, <<>>),
      \* a pull request of the 30-day query whose user is null
      DevData(<<>>, <<>>, <<Pr(9, 0, JsonNull, FALSE)>>, <<>>, <<>>) }

RunDataB ==
    { DevData(<<>>, <<>>, <<>>, <<>>, <<>>),
      DevData(<<>>, <<>>, <<Pr(2, 2, B, TRUE)>>, <<>>, <<Comment(1)>>) }

RunTimelines == <<<<Assigned(A, BadDate(StartDay - 2))>>>>

\* how the requests go wrong: not at all, two endpoints answering with an
\* error status, or two endpoints whose request raises.  The responses of
\* the last carry rate-limit headers: a budget below the low-water mark and
\* a reset half a minute ahead
RunTroubles ==
    { [fail |-> {}, raises |-> {}, headers |-> NoHeaders],
      [fail |-> {"teams", "search_comments"}, raises |-> {}, headers |-> NoHeaders],
      [fail |-> {}, raises |-> {"collaborators", "search_comments"},
       headers |-> [remaining |-> DecimalString(LowWaterMark - 5),
                    reset |-> DecimalString(StartSecond + 30)]] }

\* the ACTIVE_DEVS string and the three listings: every string against full
\* listings, and the strings that name nobody against every listing
RunRosters ==
    { [list |-> list, contributors |-> <<A, B>>, teams |-> <<<<B>>, <<A, B>>>>,
       collaborators |-> <<A>>] : list \in BSeq(ListChars, MaxListLen) }
    \cup { [list |-> list, contributors |-> contributors, teams |-> teams,
            collaborators |-> collaborators] :
            list \in {<<>>, <<" ", ",">>},
            contributors \in {<<>>, <<A, B>>, <<A, NoLogin>>},
            teams \in {<<>>, <<<<B>>, <<A, B>>>>},
            collaborators \in {<<>>, <<A>>} }

RunSnapshot ==
    \E da \in RunDataA, db \in RunDataB, roster \in RunRosters,
       trouble \in RunTroubles :
       /\ api = [dev |-> [u \in {A, B} |-> IF u = A THEN da ELSE db],
                 timeline |-> RunTimelines,
                 fail |-> trouble.fail, fail_timeline |-> {},
                 raises |-> trouble.raises, headers |-> trouble.headers,
                 contributors |-> roster.contributors, teams |-> roster.teams,
                 collaborators |-> roster.collaborators, webhook |-> 204]
       /\ config = DefaultConfig(roster.list)

Init == RunSnapshot /\ InitRest

Spec == Init /\ [][Next]_vars

\* a run of either program
NextEither == Next \/ MainNext

\* SpecRoster: the same snapshots, run by the modular scripts or by
\* activity_tracker.py
InitRoster == RunSnapshot /\ (InitRest \/ InitMainRest)

SpecRoster == InitRoster /\ [][NextEither]_vars

\* the logged exceptions of classification i, by the function that caught them
CaughtBy(i, where) ==
    { traces[i][k].text :
        k \in {x \in 1..Len(traces[i]) : /\ traces[i][x].ep = "logger.error"
                                         /\ traces[i][x].where = where} }

\* the fallback record, field by field, for an exception of the given text
FallbackFields(rec, text) ==
    /\ rec.is_inactive = TRUE
    /\ rec.has_no_issues = TRUE
    /\ rec.has_assigned_issues = FALSE
    /\ rec.stats.prs_created = 0
    /\ rec.stats.prs_merged = 0
    /\ rec.stats.issues_assigned = 0
    /\ rec.stats.comments = 0
    /\ rec.stats.last_activity_date = NoDate
    /\ rec.last_assigned_date = NoDate
    /\ rec.inactivity_reason = "error collecting data: " \o text

\* the loop goes on after each classification and the Sink gets every record
LoopCompletes ==
    /\ Len(all_data) <= Len(all_developers)
    /\ pc = "done" => Len(sent) = Len(all_developers)

\* C7 as stated: an exception raised at any step of a classification, the
\* grace-period evaluation included, yields the fallback record (inactive, no
\* issues, no assigned issues, counts 0, dates absent, the reason holding the
\* error text), and the loop goes on to the later developers.
C7_AnyExceptionFallsBack ==
    /\ \A i \in Classified :
          \A text \in CaughtBy(i, "collect_developer_data")
                      \cup CaughtBy(i, "check_activity_since_assignment")
                      \cup CaughtBy(i, "format_date_display") :
              FallbackFields(all_data[i], text)
    /\ LoopCompletes

\* C7 amended: an exception that reaches the except clause of
\* collect_developer_data yields the fallback record with the error text in
\* its reason, and the loop goes on to the later developers; an exception
\* raised inside the grace-period evaluation is caught there, counts as "not
\* active since assignment" and leaves a normal record.
C7_CaughtAtTopFallsBack ==
    /\ \A i \in Classified :
          /\ \A text \in CaughtBy(i, "collect_developer_data") :
                FallbackFields(all_data[i], text)
          /\ (/\ CaughtBy(i, "check_activity_since_assignment") # {}
              /\ CaughtBy(i, "collect_developer_data") = {})
                => /\ all_data[i].has_assigned_issues = TRUE
                   /\ all_data[i].has_no_issues = FALSE
    /\ LoopCompletes

\* a's classification raised, b was classified after it and both were sent
C7_Witness ==
    /\ pc = "done"
    /\ Len(sent) = 2
    /\ CaughtBy(1, "collect_developer_data") # {}
    /\ sent[1].is_inactive = TRUE
    /\ CaughtBy(2, "collect_developer_data") = {}
    /\ sent[2].is_inactive = FALSE

\* C8: the Sink gets exactly one record per resolved developer and no username
\* appears in two records, whether the roster came from ACTIVE_DEVS (a handle
\* named twice included) or from the contributors/team/collaborators union.
C8_OneRecordPerDeveloper ==
    pc = "done" =>
        /\ Len(sent) = Len(all_developers)
        /\ \A i \in 1..Len(sent) : sent[i].username = all_developers[i]
        /\ \A i, j \in 1..Len(sent) :
              sent[i].username = sent[j].username => i = j

\* the client as it is constructed (github_client.py 19-21), answering from
\* the same snapshot
FreshClient ==
    [GitHubClient EXCEPT !.request_count = 0,
                         !.rate_limit_remaining = RemainingDefault,
                         !.rate_limit_reset = ResetDefault]

-----------------------------------------------------------------------------
(* Roster resolution *)

\* the entries of a comma-separated string, by position: entry k lies between
\* the (k-1)-th and the k-th comma
CommaAt(str) == {i \in 1..Len(str) : str[i] = ","}
EntryStart(str, k) ==
    IF k = 1 THEN 1
    ELSE 1 + CHOOSE i \in CommaAt(str) : Cardinality({j \in CommaAt(str) : j <= i}) = k - 1
EntryEnd(str, k) ==
    IF k = Cardinality(CommaAt(str)) + 1 THEN Len(str)
    ELSE (CHOOSE i \in CommaAt(str) : Cardinality({j \in CommaAt(str) : j <= i}) = k) - 1
\* entry k without the blanks around it
Trimmed(str, k) ==
    LET inked == {i \in EntryStart(str, k)..EntryEnd(str, k) : str[i] # " "}
    IN  IF inked = {} THEN <<>>
        ELSE LET lo == CHOOSE i \in inked : \A j \in inked : i <= j
                 hi == CHOOSE i \in inked : \A j \in inked : j <= i
             IN  SubSeq(str, lo, hi)
\* the configured handles: the trimmed entries that are not empty, in order
Handles(str) ==
    LET all == [k \in 1..(Cardinality(CommaAt(str)) + 1) |-> Trimmed(str, k)]
    IN  SelectSeq(all, LAMBDA h : h # <<>>)

\* what the three listings hold on the platform, a request that fails (by
\* its status, or by an exception where the run went on) holding nothing
Unanswered(ep) == StatusFailed(api, ep) \/ RaisesAt(api, ep)
Listed ==
    (IF Unanswered("contributors") THEN {} ELSE Range(api.contributors))
    \cup (IF Unanswered("teams") \/ Unanswered("members") THEN {}
          ELSE UNION {Range(api.teams[k]) : k \in 1..Len(api.teams)})
    \cup (IF Unanswered("collaborators") THEN {} ELSE Range(api.collaborators))

RosterResolved == pc \in {"collect", "main_loop", "done"}

\* C13: with at least one configured handle the roster is the configured
\* handles in their order (trimmed, empty entries removed) and no
\* contributors/teams/collaborators query is issued; otherwise the roster is
\* the duplicate-free union of contributors, members of every team and
\* collaborators
C13_RosterResolution ==
    RosterResolved =>
        IF Handles(config.active_devs_list) # <<>>
        THEN /\ all_developers = Handles(config.active_devs_list)
             /\ roster_trace = <<>>
             /\ \A i \in 1..Len(traces) : \A k \in 1..Len(traces[i]) :
                   traces[i][k].ep \notin {"contributors", "teams", "members", "collaborators"}
        ELSE /\ Range(all_developers) = Listed
             /\ Len(all_developers) = Cardinality(Listed)

\* a configured list with a blank entry and a padded handle; the listings
\* hold other developers, and none of them was asked for
C13_Witness ==
    /\ RosterResolved
    /\ config.active_devs_list = <<",", "a", " ">>
    /\ all_developers = <<A>>
    /\ Listed = {A, B}
    /\ request_count = 0
    /\ traces # <<>>

\* without a configured handle: the union of listings that overlap
C13_UnionWitness ==
    /\ RosterResolved
    /\ config.active_devs_list = <<" ", ",", " ">>
    /\ api.contributors = <<A, B>> /\ api.teams = <<<<B>>, <<A, B>>>>
    /\ Len(all_developers) = 2

-----------------------------------------------------------------------------
(* SpecRateLimit: the Gateway's HTTP layer alone.  Each call is answered by  *)
(* a response whose status, body and rate-limit headers vary; the reset      *)
(* header lies before, at and after the clock, up to and past the ceiling.   *)
(* Some responses carry a header that is not a plain number (one padded     *)
(* with whitespace, a negative one, two that int() rejects: a letter, an    *)
(* empty value) or a number of more than nine digits (a reset at and past   *)
(* either end of what datetime.fromtimestamp takes, a quota far below 0).   *)

MaxRequests == 2

RemainingHeaders == {NoHeader, DecimalString(LowWaterMark - 1), DecimalString(LowWaterMark)}
ResetHeaders(clock) ==
    {NoHeader} \cup {DecimalString(clock + w) : w \in {0, 1, WaitCeiling - 1, WaitCeiling}}

\* the second after the last one datetime.fromtimestamp takes, and the
\* second before the first
PastTimestampMax == <<2, 5, 3, 4, 0, 2, 3, 0, 0, 8, 0, 0>>
PastTimestampMin == <<6, 2, 1, 3, 5, 5, 1, 0, 4, 0, 1>>

OddHeaders(clock) ==
    { [remaining |-> <<Blank, LowWaterMark - 1, Blank>>, reset |-> DecimalString(clock + 1)],
      [remaining |-> <<Minus, 1>>, reset |-> <<Plus>> \o DecimalString(clock + 1)],
      [remaining |-> <<10>>, reset |-> DecimalString(clock + 1)],
      [remaining |-> DecimalString(LowWaterMark - 1), reset |-> <<>>],
      [remaining |-> DecimalString(LowWaterMark - 1), reset |-> TimestampMax],
      [remaining |-> DecimalString(LowWaterMark - 1), reset |-> PastTimestampMax],
      [remaining |-> DecimalString(LowWaterMark), reset |-> PastTimestampMax],
      [remaining |-> DecimalString(LowWaterMark - 1), reset |-> <<Minus>> \o TimestampMin],
      [remaining |-> DecimalString(LowWaterMark - 1), reset |-> <<Minus>> \o PastTimestampMin],
      [remaining |-> <<Minus>> \o TimestampMax, reset |-> DecimalString(clock + 1)],
      [remaining |-> DecimalString(LowWaterMark - 1), reset |-> <<1, 0, 0, 0>>] }

Responses(clock) ==
    [status : {200, 500}, body : {<<"item">>},
     remaining : RemainingHeaders, reset : ResetHeaders(clock)]
    \cup {[status |-> 200, body |-> <<"item">>, remaining |-> h.remaining, reset |-> h.reset] :
            h \in OddHeaders(clock)}
    \cup {[status |-> NoResponse, body |-> <<>>, remaining |-> NoHeader, reset |-> NoHeader]}

\* GitHubClient.get
Get ==
    /\ pc = "gateway"
    /\ request_count < MaxRequests
    /\ \E response \in Responses(seconds) : HttpCall("get", response)
    /\ UNCHANGED <<api, config, now, pc, all_developers, all_data, clock_log,
                   roster_trace, traces, sent, environ, sinkVars, exit_code>>

\* GitHubClient.get_issue_timeline
GetTimeline ==
    /\ pc = "gateway"
    /\ request_count < MaxRequests
    /\ \E response \in Responses(seconds) : HttpCall("get_issue_timeline", response)
    /\ UNCHANGED <<api, config, now, pc, all_developers, all_data, clock_log,
                   roster_trace, traces, sent, environ, sinkVars, exit_code>>

NextRateLimit == Get \/ GetTimeline

InitRateLimit ==
    /\ api = [dev |-> <<>>, timeline |-> <<>>, fail |-> {}, fail_timeline |-> {},
              contributors |-> <<>>, teams |-> <<>>, collaborators |-> <<>>,
              webhook |-> 204]
    /\ config = DefaultConfig(<<>>)
    /\ now = StartDay
    /\ pc = "gateway"
    /\ all_developers = <<>>
    /\ all_data = <<>>
    /\ clock_log = <<>>
    /\ request_count = 0
    /\ roster_trace = <<>>
    /\ traces = <<>>
    /\ sent = <<>>
    /\ rate_limit_remaining = RemainingDefault
    /\ rate_limit_reset = ResetDefault
    /\ seconds = StartSecond
    /\ http_log = <<>>
    /\ posts = <<>>
    /\ sink_log = <<>>
    /\ notified_by = None
    /\ sink_clock = <<>>
    /\ exit_code = NoExit
    /\ environ = DefaultEnviron(config.active_devs_list)

SpecRateLimit == InitRateLimit /\ [][NextRateLimit]_vars

\* int() accepts the two headers of the response, where it carries them
Readable(response) ==
    ~HeaderRejected(response.remaining) /\ ~HeaderRejected(response.reset)

\* what the headers of a response say
RemainingOf(response) == HeaderOr(response.remaining, RemainingDefault)
ResetOf(response) == HeaderOr(response.reset, ResetDefault)

\* remaining < n, for n >= 0: a number of more than nine digits is below n
\* when it is negative
RemainingBelow(response, n) ==
    IF response.remaining # NoHeader /\ ~Fits(response.remaining)
    THEN Negative(response.remaining)
    ELSE RemainingOf(response) < n

\* the wait until reset, counted from the second the response came at, is
\* more than n seconds, for n >= 0
WaitAbove(x, n) ==
    LET wait == Difference(
                    IF x.response.reset = NoHeader THEN NumeralOfInt(ResetDefault)
                    ELSE [negative |-> Negative(x.response.reset),
                          digits |-> Significant(DigitsOf(x.response.reset))],
                    NumeralOfInt(x.at))
    IN  ~wait.negative /\ Exceeds(wait.digits, NumeralOfInt(n).digits)

\* the rate-limit rules on entry k of the log: the sleep, the warning, the
\* time that passed until the next call
RateLimitRules(k) ==
    LET x == http_log[k]
        low == RemainingBelow(x.response, 10)
        after == IF k < Len(http_log) THEN http_log[k + 1].at ELSE seconds
    IN  /\ (x.slept > 0) <=>
              (low /\ WaitAbove(x, 0) /\ ~WaitAbove(x, 299))
        /\ after - x.at = x.slept
        /\ (low /\ WaitAbove(x, 299)) => (x.warned /\ x.slept = 0)
        /\ ~low => (~x.warned /\ x.slept = 0)

\* the call of entry k returned the result of its own response
OwnResult(k) ==
    /\ http_log[k].issued = 1
    /\ http_log[k].returned = IF http_log[k].response.status = 200
                              THEN http_log[k].response.body ELSE NoBody

\* entry k is the last response that came
LastResponse(k) ==
    /\ http_log[k].response.status # NoResponse
    /\ \A j \in (k + 1)..Len(http_log) : http_log[j].response.status = NoResponse

\* the two fields hold what the headers of the response say
FieldsFrom(response) ==
    /\ rate_limit_remaining = RemainingOf(response)
    /\ rate_limit_reset = ResetOf(response)

\* C12: after each response the two rate-limit fields hold what its headers
\* say; the call sleeps iff remaining < 10 and the wait until reset is
\* strictly between 0 and 300 s; with remaining < 10 and a wait of 300 s or
\* more it warns and does not sleep; with remaining >= 10 it neither warns
\* nor sleeps; the request is issued once and the call returns the result
\* of its own response.  What the headers say is a number where int() reads
\* them; the result of the response is its own whatever its headers.
C12_RateLimit ==
    /\ \A k \in 1..Len(http_log) :
          http_log[k].response.status # NoResponse =>
              /\ Readable(http_log[k].response) => RateLimitRules(k)
              /\ OwnResult(k)
    /\ request_count = Len(http_log)
    /\ \A k \in 1..Len(http_log) :
          (LastResponse(k) /\ Readable(http_log[k].response))
              => FieldsFrom(http_log[k].response)

\* the claim holds of every response on which _handle_rate_limit does not
\* raise
RateLimitWhenHandled ==
    /\ \A k \in 1..Len(http_log) :
          (/\ http_log[k].response.status # NoResponse
           /\ ~RateLimitRaises(http_log[k].response))
              => (RateLimitRules(k) /\ OwnResult(k))
    /\ request_count = Len(http_log)
    /\ \A k \in 1..Len(http_log) :
          (LastResponse(k) /\ ~RateLimitRaises(http_log[k].response))
              => FieldsFrom(http_log[k].response)

\* a call slept for the reset and returned its own 200 body; another, at
\* the ceiling, only warned
SleptAndWarned ==
    /\ \E k \in 1..Len(http_log) :
          /\ http_log[k].slept > 0
          /\ http_log[k].response.status = 200
          /\ http_log[k].returned = <<"item">>
    /\ \E k \in 1..Len(http_log) :
          /\ http_log[k].warned
          /\ http_log[k].slept = 0

\* a response on which _handle_rate_limit raises: the call answers None
\* though the status is 200, logs the error, neither warns nor sleeps, and
\* the fields assigned before the statement that raised hold the header
\* values, the others what they held
RaisingRateLimitAnswersNone ==
    \A k \in 1..Len(http_log) :
        LET x == http_log[k] IN
        (x.response.status # NoResponse /\ RateLimitRaises(x.response)) =>
            /\ x.returned = NoBody /\ x.error_logged
            /\ ~x.warned /\ x.slept = 0
            /\ k = Len(http_log) =>
                  /\ seconds = x.at
                  /\ x.response.reset = <<>> => rate_limit_remaining = LowWaterMark - 1
                  /\ Readable(x.response) => FieldsFrom(x.response)

\* the quota is below the mark and the reset is a second past the last one
\* datetime.fromtimestamp takes: the 200 response is answered None, without
\* a warning
ResetPastRangeSeen ==
    \E k \in 1..Len(http_log) :
        /\ http_log[k].response.remaining = DecimalString(LowWaterMark - 1)
        /\ http_log[k].response.reset = PastTimestampMax
        /\ http_log[k].response.status = 200
        /\ http_log[k].returned = NoBody
        /\ ~http_log[k].warned

\* the same reset with the quota at the mark is stored and not converted
ResetPastRangeStored ==
    /\ http_log # <<>>
    /\ http_log[Len(http_log)].response.remaining = DecimalString(LowWaterMark)
    /\ http_log[Len(http_log)].response.reset = PastTimestampMax
    /\ http_log[Len(http_log)].returned = <<"item">>
    /\ rate_limit_reset = [negative |-> FALSE, digits |-> PastTimestampMax]

\* the last second datetime.fromtimestamp takes: a warning, no sleep
ResetAtRangeEndWarned ==
    \E k \in 1..Len(http_log) :
        /\ http_log[k].response.reset = TimestampMax
        /\ http_log[k].warned /\ http_log[k].slept = 0
        /\ http_log[k].returned = <<"item">>

\* a reset long past, of four digits, is stored as the integer: no warning
PastResetStored ==
    /\ http_log # <<>>
    /\ http_log[Len(http_log)].response.reset = <<1, 0, 0, 0>>
    /\ ~http_log[Len(http_log)].warned
    /\ rate_limit_reset = 1000

\* a response with a padded header was read as its number and slept for
PaddedHeaderRead ==
    \E k \in 1..Len(http_log) :
        /\ http_log[k].response.remaining = <<Blank, LowWaterMark - 1, Blank>>
        /\ http_log[k].slept = 2
        /\ k = Len(http_log)
        /\ rate_limit_remaining = LowWaterMark - 1

\* a response with a rejected header was answered None
RejectedHeaderSeen ==
    \E k \in 1..Len(http_log) :
        /\ http_log[k].response.remaining = <<10>>
        /\ http_log[k].returned = NoBody

-----------------------------------------------------------------------------
(* SpecConfig: a run from the environment on.  The required variables are   *)
(* unset, empty or set; a threshold variable is unset, a number, a text     *)
(* int() reads as a number though it holds more than digits (whitespace, a  *)
(* sign, an underscore between digits), or one int() rejects (empty, a      *)
(* letter, an underscore before the digits); the dry-run flag varies.  Developer a has a pull request   *)
(* 6 days old and was last assigned an issue 2 days ago, so that both        *)
(* thresholds decide its record.                                             *)

ConfigData ==
    DevData(<<>>, <<IssueOpt("ok", <<Assigned(A, Stamp(2))>>)>>,
            <<Pr(6, 6, A, FALSE)>>, <<>>, <<>>)

Environs ==
    [GH_TOKEN : {Unset, <<>>, <<"t">>},
     DISCORD_WEBHOOK_URL : {Unset, <<>>, <<"u">>},
     GH_REPOSITORY : {Unset, <<>>, <<"o", "/", "r">>},
     INACTIVITY_THRESHOLD_DAYS :
         {NotSet, <<5>>, <<>>, <<Blank, 7>>, <<Minus, 5>>, <<1, Underscore, 0>>},
     NO_ISSUES_THRESHOLD_DAYS :
         {NotSet, <<1>>, <<1, 10>>, <<Plus, 1, Blank>>, <<Underscore, 1>>},
     ACTIVE_DEVS : {Unset, <<"a">>},
     debug : {FALSE},
     dry_run : BOOLEAN]

InitConfig ==
    /\ api = [dev |-> [u \in {A} |-> ConfigData],
              timeline |-> Timelines(<<>>, <<IssueOpt("ok", <<Assigned(A, Stamp(2))>>)>>),
              fail |-> {}, fail_timeline |-> {},
              contributors |-> <<A>>, teams |-> <<>>, collaborators |-> <<>>,
              webhook |-> 204]
    /\ environ \in Environs
    /\ config = NoConfig
    /\ now = StartDay
    /\ pc = "load"
    /\ all_developers = <<>>
    /\ all_data = <<>>
    /\ clock_log = <<>>
    /\ request_count = 0
    /\ roster_trace = <<>>
    /\ traces = <<>>
    /\ sent = <<>>
    /\ rate_limit_remaining = RemainingDefault
    /\ rate_limit_reset = ResetDefault
    /\ seconds = StartSecond
    /\ http_log = <<>>
    /\ posts = <<>>
    /\ sink_log = <<>>
    /\ notified_by = None
    /\ sink_clock = <<>>
    /\ exit_code = NoExit

SpecConfig == InitConfig /\ [][NextConfig]_vars

Loaded == pc # "load"

\* a required value is missing: unset or empty
RequiredMissing ==
    \/ environ.GH_TOKEN \in {Unset, <<>>}
    \/ environ.GH_REPOSITORY \in {Unset, <<>>}
    \/ environ.DISCORD_WEBHOOK_URL \in {Unset, <<>>} /\ ~environ.dry_run

\* a threshold variable is set to something int() rejects: "", "1x", "_1"
BadThreshold ==
    \/ environ.INACTIVITY_THRESHOLD_DAYS = <<>>
    \/ environ.NO_ISSUES_THRESHOLD_DAYS \in {<<1, 10>>, <<Underscore, 1>>}

\* the number Python reads from each text of the environments: "5", " 7",
\* "-5", "1_0"; "1", "+1 "
NumberRead(text) ==
    CASE text = <<5>> -> 5
      [] text = <<Blank, 7>> -> 7
      [] text = <<Minus, 5>> -> 0 - 5
      [] text = <<1, Underscore, 0>> -> 10
      [] text = <<1>> -> 1
      [] text = <<Plus, 1, Blank>> -> 1

\* the thresholds of a loaded configuration: the variable's number, 7 and 3
\* when it is unset
ThresholdsLoaded ==
    config # NoConfig =>
        /\ config.inactivity_threshold_days =
              IF environ.INACTIVITY_THRESHOLD_DAYS = NotSet THEN 7
              ELSE NumberRead(environ.INACTIVITY_THRESHOLD_DAYS)
        /\ config.no_issues_threshold_days =
              IF environ.NO_ISSUES_THRESHOLD_DAYS = NotSet THEN 3
              ELSE NumberRead(environ.NO_ISSUES_THRESHOLD_DAYS)

\* no configuration: the run ends with a non-zero exit and has issued no
\* request to the platform or the webhook
AbortsBeforeAnyCall ==
    config = NoConfig =>
        /\ exit_code = 1
        /\ request_count = 0
        /\ posts = <<>>

\* C14: load_config returns no configuration (the run aborts before any API
\* call) if and only if the token is missing, or the repository is missing,
\* or the webhook URL is missing while dry-run is off; thresholds default to
\* 7 and 3 when unset
C14_ConfigValidation ==
    Loaded =>
        /\ config = NoConfig <=> RequiredMissing
        /\ AbortsBeforeAnyCall
        /\ ThresholdsLoaded

\* C14, amended: load_config yields no configuration if and only if a
\* required value is missing or a threshold variable is set to a string
\* int() rejects; in the latter case it raises ValueError, whatever the
\* required values; otherwise it returns None exactly when a required value
\* is missing
C14_ConfigValidationOrBadThreshold ==
    Loaded =>
        /\ config = NoConfig <=> (RequiredMissing \/ BadThreshold)
        /\ pc = "crashed" /\ config = NoConfig <=> BadThreshold
        /\ pc = "aborted" <=> (RequiredMissing /\ ~BadThreshold)
        /\ AbortsBeforeAnyCall
        /\ ThresholdsLoaded

\* a dry run without a webhook URL and with unset thresholds ran to its end
\* on the defaults
C14_Witness ==
    /\ pc = "done"
    /\ environ.dry_run /\ environ.DISCORD_WEBHOOK_URL = Unset
    /\ environ.INACTIVITY_THRESHOLD_DAYS = NotSet
    /\ Len(all_data) = 1
    /\ config.inactivity_threshold_days = 7 /\ config.no_issues_threshold_days = 3
    /\ ~all_data[1].is_inactive

\* a threshold set to "-5" was loaded as a negative number and the run went
\* on to its end with it
NegativeThresholdLoaded ==
    /\ pc = "done"
    /\ environ.INACTIVITY_THRESHOLD_DAYS = <<Minus, 5>>
    /\ config.inactivity_threshold_days = 0 - 5
    /\ Len(all_data) = 1

\* the padded and the grouped texts were loaded as their numbers
PaddedThresholdLoaded ==
    /\ pc = "done"
    /\ environ.INACTIVITY_THRESHOLD_DAYS = <<Blank, 7>>
    /\ environ.NO_ISSUES_THRESHOLD_DAYS = <<Plus, 1, Blank>>
    /\ config.inactivity_threshold_days = 7 /\ config.no_issues_threshold_days = 1

GroupedThresholdLoaded ==
    /\ pc = "done"
    /\ environ.INACTIVITY_THRESHOLD_DAYS = <<1, Underscore, 0>>
    /\ config.inactivity_threshold_days = 10

-----------------------------------------------------------------------------
(* SpecSink: whole runs over a, b and c, of the modular scripts or of       *)
(* activity_tracker.py, that end in the script's Sink.  a has a merged pull *)
(* request, b two comments, an assigned issue and a commit of 40 days ago,  *)
(* c nothing: a and b have the same total, c is inactive, a and c are       *)
(* without issues.  The configured list (any order, repetitions included), the      *)
(* dry-run flag and the webhook's answer vary.                              *)

C == <<"c">>

MaxRoster == 3

\* ",".join(names)
RECURSIVE Join(_)
Join(names) ==
    IF names = <<>> THEN <<>>
    ELSE IF Len(names) = 1 THEN names[1]
    ELSE names[1] \o <<",">> \o Join(Tail(names))

SinkData ==
    [u \in {A, B, C} |->
        IF u = A THEN DevData(<<>>, <<>>, <<Pr(2, 2, A, TRUE)>>, <<>>, <<>>)
        ELSE IF u = B
        THEN Committing(DevData(<<IssueOpt("ok", <<Assigned(B, Stamp(20))>>)>>,
                                <<>>, <<>>, <<>>, <<Comment(1), Comment(3)>>),
                        <<Stamp(40)>>)
        ELSE DevData(<<>>, <<>>, <<>>, <<>>, <<>>)]

WebhookAnswers == {200, 204, 404, NoResponse}

InitSink ==
    /\ \E hook \in WebhookAnswers :
          api = [dev |-> SinkData,
                 timeline |-> <<<<Assigned(B, Stamp(20))>>>>,
                 fail |-> {}, fail_timeline |-> {},
                 contributors |-> <<>>, teams |-> <<>>, collaborators |-> <<>>,
                 webhook |-> hook]
    /\ \E names \in BSeq({A, B, C}, MaxRoster), dry_run \in BOOLEAN :
          /\ environ = [DefaultEnviron(Join(names)) EXCEPT !.dry_run = dry_run]
          /\ config = load_config(environ).config
    /\ now = StartDay
    /\ pc \in {"start", "main"}
    /\ all_developers = <<>>
    /\ all_data = <<>>
    /\ clock_log = <<>>
    /\ request_count = 0
    /\ roster_trace = <<>>
    /\ traces = <<>>
    /\ sent = <<>>
    /\ rate_limit_remaining = RemainingDefault
    /\ rate_limit_reset = ResetDefault
    /\ seconds = StartSecond
    /\ http_log = <<>>
    /\ posts = <<>>
    /\ sink_log = <<>>
    /\ notified_by = None
    /\ sink_clock = <<>>
    /\ exit_code = NoExit

SpecSink == InitSink /\ [][NextEither]_vars

\* C15: notifier.py's send_discord_notification posts nothing when dry-run
\* is configured or the list of records is empty, and exactly one payload in
\* every other case
C15_PostsOnceUnlessDryOrEmpty ==
    /\ notified_by = None => posts = <<>>
    /\ notified_by = "notifier" =>
          Len(posts) = IF config.dry_run \/ sent = <<>> THEN 0 ELSE 1

\* a dry run over two developers: nothing was posted
C15_Witness ==
    /\ notified_by = "notifier"
    /\ config.dry_run
    /\ Len(sent) = 2
    /\ posts = <<>>
    /\ pc = "done"

\* the post was attempted and not delivered
DeliveryFailed == posts # <<>> /\ api.webhook \notin {200, 204}

\* C16: a delivery failure (a status other than 200/204, or an exception of
\* the post) is logged and does not leave send_discord_notification: the run
\* ends with a successful exit
C16_DeliveryFailureNotRaised ==
    (notified_by # None /\ DeliveryFailed) =>
        /\ pc = "done"
        /\ exit_code = 0
        /\ \E k \in 1..Len(sink_log) :
              sink_log[k].level \in {"error", "print"}

\* the cards of the payload posted
Cards == posts[1].embeds
CardTitles == [k \in 1..Len(Cards) |-> Cards[k].title]
HasCard(title) == \E k \in 1..Len(Cards) : Cards[k].title = title
CardOf(title) == Cards[CHOOSE k \in 1..Len(Cards) : Cards[k].title = title]

\* C17: the payload of a non-empty list holds at most 4 cards, each one of
\* activity summary, inactive developers, developers without issues,
\* recommendations
C17_AtMostFourCards ==
    posts # <<>> =>
        /\ Len(Cards) <= 4
        /\ \A k \in 1..Len(Cards) :
              Cards[k].title \in {"developer activity summary", "inactive developers",
                                  "developers without assigned issues", "recommendations"}

\* C17, amended: the payload opens with a header card ("activity report"),
\* followed by the activity summary, the inactive card iff a record is
\* inactive, the no-issues card iff a record is without issues, and the
\* recommendations, in this order: 3 to 5 cards
C17_HeaderAndUpToFourCards ==
    posts # <<>> =>
        CardTitles =
            <<"activity report", "developer activity summary">>
            \o (IF \E i \in 1..Len(sent) : sent[i].is_inactive
                THEN <<"inactive developers">> ELSE <<>>)
            \o (IF \E i \in 1..Len(sent) : sent[i].has_no_issues
                THEN <<"developers without assigned issues">> ELSE <<>>)
            \o <<"recommendations">>

\* notifier.py posted five cards
C17_Witness ==
    /\ notified_by = "notifier"
    /\ posts # <<>>
    /\ Len(posts[1].embeds) = 5

\* the total the summary is sorted by
ActivityTotal(dev) == dev.stats.prs_created + dev.stats.prs_merged + dev.stats.comments

\* field of the summary card for a record
ShowsRecord(field, dev) ==
    /\ field.name = <<"@">> \o dev.username
    /\ field.value.prs_created = dev.stats.prs_created
    /\ field.value.prs_merged = dev.stats.prs_merged
    /\ field.value.issues_assigned = dev.stats.issues_assigned
    /\ field.value.comments = dev.stats.comments
    /\ field.value.last_active = dev.stats.last_activity_display

Bijections(n) == {q \in [1..n -> 1..n] : \A i, j \in 1..n : q[i] = q[j] => i = j}

\* C18: the summary card of notifier.py has one field per input record, a
\* permutation of the records, in non-increasing order of prs_created +
\* prs_merged + comments, records of equal total in their input order
C18_SummarySorted ==
    (notified_by = "notifier" /\ posts # <<>>) =>
        LET fields == CardOf("developer activity summary").fields IN
        /\ Len(fields) = Len(sent)
        /\ \E q \in Bijections(Len(sent)) :
              /\ \A i \in 1..Len(sent) : ShowsRecord(fields[i], sent[q[i]])
              /\ \A i, j \in 1..Len(sent) :
                    i < j => \/ ActivityTotal(sent[q[i]]) > ActivityTotal(sent[q[j]])
                             \/ /\ ActivityTotal(sent[q[i]]) = ActivityTotal(sent[q[j]])
                                /\ q[i] < q[j]

\* b, c, a in: a and b have the same total and stay in input order, c comes
\* last
C18_Witness ==
    /\ notified_by = "notifier"
    /\ posts # <<>>
    /\ Len(sent) = 3
    /\ sent[1].username = B /\ sent[2].username = C /\ sent[3].username = A
    /\ LET fields == CardOf("developer activity summary").fields IN
          /\ fields[1].name = <<"@">> \o B
          /\ fields[2].name = <<"@">> \o A
          /\ fields[3].name = <<"@">> \o C

\* the positions, in input order, of the records a predicate selects
InactiveAt == {i \in 1..Len(sent) : sent[i].is_inactive}
NoIssuesAt == {i \in 1..Len(sent) : sent[i].has_no_issues}
Nth(S, k) == CHOOSE i \in S : Cardinality({j \in S : j <= i}) = k

\* C19: the inactive card is present iff a record is inactive, and its
\* fields are, in input order, the inactive records, each with the record's
\* username, last_activity_display and inactivity_reason; the no-issues card
\* lists, in input order, exactly the records without issues
C19_CardsListTheirRecords ==
    posts # <<>> =>
        /\ HasCard("inactive developers") <=> InactiveAt # {}
        /\ HasCard("inactive developers") =>
              LET fields == CardOf("inactive developers").fields IN
              /\ Len(fields) = Cardinality(InactiveAt)
              /\ \A k \in 1..Len(fields) :
                    LET dev == sent[Nth(InactiveAt, k)] IN
                    /\ fields[k].name = <<"@">> \o dev.username
                    /\ fields[k].value.last_active = dev.stats.last_activity_display
                    /\ fields[k].value.reason = dev.inactivity_reason
        /\ HasCard("developers without assigned issues") <=> NoIssuesAt # {}
        /\ HasCard("developers without assigned issues") =>
              LET fields == CardOf("developers without assigned issues").fields IN
              /\ Len(fields) = Cardinality(NoIssuesAt)
              /\ \A k \in 1..Len(fields) :
                    fields[k].name = <<"@">> \o sent[Nth(NoIssuesAt, k)].username

\* c, a, c in: the inactive card lists c twice, the no-issues card c, a, c
C19_Witness ==
    /\ notified_by = "notifier"
    /\ posts # <<>>
    /\ Len(sent) = 3
    /\ sent[1].username = C /\ sent[2].username = A /\ sent[3].username = C
    /\ Len(CardOf("inactive developers").fields) = 2
    /\ Len(CardOf("developers without assigned issues").fields) = 3

-----------------------------------------------------------------------------
(* SpecLastActivity: one developer, a; the pull requests of the 30-day      *)
(* query, the open pull requests and the comments vary in author, order and *)
(* updated_at.  Ages are days before StartDay.                              *)

LastActivityPrs ==
    { <<>>,
      <<Pr(5, 3, A, FALSE)>>,
      <<Pr(9, 1, B, FALSE), Pr(6, 4, A, FALSE)>>,
      <<Pr(6, 4, A, FALSE), Pr(5, 2, A, TRUE)>>,
      <<Pr(5, 3, A, FALSE), Pr(9, 0, JsonNull, FALSE)>>,
      <<Pr(9, 0, JsonNull, FALSE)>> }

LastActivityOpenPrs ==
    { <<>>,
      <<OpenPr(2, A)>>,
      <<OpenPr(4, A), OpenPr(2, A)>>,
      <<OpenPr(3, A), OpenPr(5, A)>>,
      <<OpenPr(1, B), OpenPr(4, A)>> }

LastActivityComments ==
    { <<>>, <<Comment(2)>>, <<Comment(3)>>, <<Comment(4), Comment(1)>> }

LastActivityHistory ==
    { <<>>, <<IssueOpt("ok", <<Assigned(JsonNull, Stamp(5))>>)>> }

InitLastActivity ==
    /\ \E prs \in LastActivityPrs, open_prs \in LastActivityOpenPrs,
          comments \in LastActivityComments, ho \in LastActivityHistory :
          api = [dev |-> [u \in {A} |-> DevData(<<>>, ho, prs, open_prs, comments)],
                 timeline |-> Timelines(<<>>, ho),
                 fail |-> {}, fail_timeline |-> {},
                 contributors |-> <<A>>, teams |-> <<>>, collaborators |-> <<>>,
                 webhook |-> 204]
    /\ config = DefaultConfig(<<"a">>)
    /\ InitRest

SpecLastActivity == InitLastActivity /\ [][Next]_vars

\* the three sources of classification i, as the Gateway answered them
CreatedPrsOf(i) ==
    VerifiedBy(get_user_prs(GitHubClient, all_developers[i],
                   strftime(StatsNow(i) - StatsWindowDays), FALSE, FALSE).val.items,
               all_developers[i])
OpenPrsOf(i) ==
    VerifiedBy(get_user_open_prs(GitHubClient, all_developers[i]).val,
               all_developers[i])
CommentsOf(i) ==
    get_user_comments(GitHubClient, all_developers[i],
        strftime(StatsNow(i) - StatsWindowDays), FALSE).val

\* the timestamps the pull requests supply: the first created one, every open one
PrStamps(i) ==
    {CreatedPrsOf(i)[k].updated_at : k \in 1..Len(Take(CreatedPrsOf(i), 1))}
    \cup {OpenPrsOf(i)[k].updated_at : k \in 1..Len(OpenPrsOf(i))}
\* the timestamp the first comment supplies
CommentStamps(i) ==
    {CommentsOf(i)[k].updated_at : k \in 1..Len(Take(CommentsOf(i), 1))}
SourceStamps(i) == {s \in PrStamps(i) \cup CommentStamps(i) : Truthy(s)}

\* the greatest string of a non-empty set
Greatest(S) == CHOOSE s \in S : \A other \in S : StrGE(s, other)

\* the record's last activity is what the claim says
LastActivityResolved(i) ==
    LET stats == all_data[i].stats IN
    IF SourceStamps(i) = {}
    THEN /\ stats.last_activity_date = NoDate
         /\ stats.last_activity_type = None
         /\ stats.last_activity_display = "never"
    ELSE /\ stats.last_activity_date = Greatest(SourceStamps(i))
         /\ stats.last_activity_type =
                (IF \E s \in PrStamps(i) : s = Greatest(SourceStamps(i))
                 THEN "PR" ELSE "comment")
         /\ stats.last_activity_display =
                format_date_display(Greatest(SourceStamps(i)), DisplayNow(i))

\* classification i ended in the except branch
EndedInFallback(i) ==
    all_data[i].stats.last_activity_display = "error collecting data"

\* C20: in every record, last_activity_date is the maximum updated_at among
\* the first author-verified created pull request, every author-verified open
\* pull request and the first comment; last_activity_type is "comment" only
\* when the comment's timestamp is strictly greater than every pull request
\* candidate and "PR" otherwise; when no source supplies a timestamp, date and
\* type are absent and last_activity_display is "never".
C20_LastActivityIsMaximum ==
    \A i \in Classified : LastActivityResolved(i)

\* the same statement for the records of the normal path only
LastActivityIsMaximumOnNormalPath ==
    \A i \in Classified : ~EndedInFallback(i) => LastActivityResolved(i)

\* a normal record in which a pull request and the first comment tie
LastActivityTie ==
    \E i \in Classified :
        /\ ~EndedInFallback(i)
        /\ PrStamps(i) \cap CommentStamps(i) # {}
        /\ Greatest(SourceStamps(i)) \in CommentStamps(i)
        /\ all_data[i].stats.last_activity_type = "PR"

-----------------------------------------------------------------------------
(* Author verification *)

\* the pull requests the 30-day query returned for classification i
ReturnedPrsOf(i) ==
    get_user_prs(GitHubClient, all_developers[i],
        strftime(StatsNow(i) - StatsWindowDays), FALSE, FALSE).val.items
\* the open pull requests the listing returned for classification i
ReturnedOpenPrsOf(i) == get_user_open_prs(GitHubClient, all_developers[i]).val

\* how many items of a listing carry the login as their author
AuthoredBy(items, username) ==
    Cardinality({k \in 1..Len(items) : items[k].user = username})

\* timestamps that only items of other authors carry
ForeignStamps(i) ==
    ({ReturnedPrsOf(i)[k].updated_at : k \in 1..Len(ReturnedPrsOf(i))}
     \cup {ReturnedOpenPrsOf(i)[k].updated_at : k \in 1..Len(ReturnedOpenPrsOf(i))})
    \ SourceStamps(i)

AuthorVerified(i) ==
    /\ all_data[i].stats.prs_created = AuthoredBy(ReturnedPrsOf(i), all_developers[i])
    /\ all_data[i].stats.last_activity_date \notin ForeignStamps(i)

\* C21: stats.prs_created is the number of pull requests returned by the
\* 30-day created-PR query whose author login equals the queried username;
\* a returned pull request of another author is neither counted nor a
\* last-activity candidate, and the same holds for the open pull requests.
C21_AuthorVerification ==
    \A i \in Classified : AuthorVerified(i)

\* the same statement for the records of the normal path only
AuthorVerificationOnNormalPath ==
    \A i \in Classified : ~EndedInFallback(i) => AuthorVerified(i)

\* a normal record for which a foreign pull request, newer than every own
\* source, was returned and dropped
ForeignPrDropped ==
    \E i \in Classified :
        /\ ~EndedInFallback(i)
        /\ Len(ReturnedPrsOf(i)) = 2
        /\ all_data[i].stats.prs_created = 1
        /\ \E s \in ForeignStamps(i) :
              StrGT(s, all_data[i].stats.last_activity_date)

-----------------------------------------------------------------------------
(* SpecRun: whole runs of main over a and b under the program's own         *)
(* scheduling.  The configured list, the three listings (one of them with   *)
(* an item without "login"), a failing request and the webhook's answer     *)
(* vary.  main is sequential: whichever statement is next is executed, so   *)
(* its steps are weakly fair; the clock (Tick) is the environment's.        *)

RunLists == {<<>>, Join(<<A, B>>), Join(<<B, A>>), Join(<<A, A>>)}

InitRun ==
    /\ \E db \in RunDataB,
          contributors \in {<<>>, <<A, B>>, <<B, NoLogin>>},
          collaborators \in {<<>>, <<A>>},
          trouble \in {[fail |-> {}, raises |-> {}],
                       [fail |-> {"search_prs"}, raises |-> {}],
                       [fail |-> {}, raises |-> {"contributors", "commits"}]},
          hook \in {204, NoResponse} :
          api = [dev |-> [u \in {A, B} |->
                            IF u = A
                            THEN DevData(<<>>, <<>>, <<Pr(9, 0, JsonNull, FALSE)>>,
                                         <<>>, <<>>)
                            ELSE db],
                 timeline |-> <<>>,
                 fail |-> trouble.fail, fail_timeline |-> {},
                 raises |-> trouble.raises,
                 contributors |-> contributors, teams |-> <<>>,
                 collaborators |-> collaborators, webhook |-> hook]
    /\ \E list \in RunLists : config = DefaultConfig(list)
    /\ InitMainRest

\* a statement of main
MainStep == MainRoster \/ MainCollect \/ MainNotify

SpecRun == InitRun /\ [][MainNext]_vars /\ WF_vars(MainStep)

\* either script's Sink was called
SinkInvoked == notified_by # None

Usernames(data) == [i \in 1..Len(data) |-> data[i].username]

\* the records so far are those of the roster's first developers, in order;
\* the Sink is called only with one record per roster entry
InRosterOrder ==
    /\ Len(all_data) <= Len(all_developers)
    /\ Usernames(all_data) = SubSeq(all_developers, 1, Len(all_data))
    /\ SinkInvoked =>
          /\ Len(all_data) = Len(all_developers)
          /\ Usernames(sent) = all_developers
    /\ ~SinkInvoked => sent = <<>> /\ posts = <<>>

\* one developer per step, nothing classified again, nothing after the Sink
OneAtATime ==
    /\ \/ all_data' = all_data
       \/ /\ Len(all_data') = Len(all_data) + 1
          /\ SubSeq(all_data', 1, Len(all_data)) = all_data
    /\ SinkInvoked =>
          /\ notified_by' = notified_by
          /\ sent' = sent /\ posts' = posts /\ all_data' = all_data

\* C22: the developers are classified one at a time in roster order, each
\* once; the Sink is invoked once, only after the last developer, with the
\* records in roster order; and every run, whatever the roster and the
\* Gateway's answers, reaches the Sink call.
C22_SequentialRunReachesSink ==
    /\ []InRosterOrder
    /\ [][OneAtATime]_vars
    /\ <>SinkInvoked

\* the same, the runs that do not reach the Sink being those an uncaught
\* exception ended
RunReachesSinkUnlessUncaught ==
    /\ []InRosterOrder
    /\ [][OneAtATime]_vars
    /\ <>(SinkInvoked \/ pc = "crashed")

\* the run ended without the Sink having been called
EndedBeforeSink == pc = "crashed" /\ ~SinkInvoked

-----------------------------------------------------------------------------
(* The verdict over several assigned issues *)

\* the issues get_assigned_issues answered for classification i
AssignedOf(i) == get_assigned_issues(GitHubClient, all_developers[i]).val

\* the developer has assigned issues, as the Gateway answered
HasAssigned(i) ==
    /\ ~Raised(get_assigned_issues(GitHubClient, all_developers[i]))
    /\ Len(AssignedOf(i)) >= 1

\* issue k of the listing has a number and a resolved assignment timestamp
\* whose grace period is running, or at whose end evidence is found
YieldsActive(i, k) ==
    LET d == ResolvedDate(AssignedOf(i)[k], all_developers[i]) IN
    /\ Truthy(d)
    /\ \/ strptime(d) + Threshold > GraceNow(i, k)
       \/ EvidenceReported(all_developers[i], strftime(strptime(d) + Threshold))

\* the timeline of issue number n was fetched during classification i
TimelineFetched(i, n) ==
    \E x \in 1..Len(traces[i]) :
        /\ traces[i][x].ep = "timeline"
        /\ traces[i][x].n = n

ManyIssuesVerdict(i) ==
    /\ all_data[i].is_inactive = FALSE
           <=> \E k \in 1..Len(AssignedOf(i)) : YieldsActive(i, k)
    /\ \A k \in 1..Len(AssignedOf(i)) :
          YieldsActive(i, k) =>
              \A j \in (k + 1)..Len(AssignedOf(i)) :
                  ~TimelineFetched(i, AssignedOf(i)[j].number)

\* C23: when the first probe finds nothing and the developer has n >= 1
\* assigned issues, is_inactive = false if and only if some assigned issue
\* has a number and a resolved assignment timestamp a with a + threshold > now
\* or with evidence found at cutoff a + threshold; the issues are examined in
\* list order and no timeline is fetched for the issues after the first one
\* that yields active.
C23_VerdictOverAssignedIssues ==
    \A i \in Classified :
        (/\ ProbeMisses(all_developers[i], CutoffOf(i))
         /\ HasAssigned(i))
            => ManyIssuesVerdict(i)

\* the same statement for the records of the normal path only
VerdictOverAssignedIssuesOnNormalPath ==
    \A i \in Classified :
        (/\ ProbeMisses(all_developers[i], CutoffOf(i))
         /\ HasAssigned(i)
         /\ ~EndedInFallback(i))
            => ManyIssuesVerdict(i)

\* two issues, the first yields nothing and the second is in its grace
\* period: a normal record, active, both timelines fetched
SecondIssueYields ==
    \E i \in Classified :
        /\ ProbeMisses(all_developers[i], CutoffOf(i))
        /\ HasAssigned(i) /\ Len(AssignedOf(i)) = 2
        /\ ~EndedInFallback(i)
        /\ ~YieldsActive(i, 1) /\ YieldsActive(i, 2)
        /\ all_data[i].is_inactive = FALSE
        /\ TimelineFetched(i, AssignedOf(i)[1].number)

\* two issues, the first is in its grace period: the second's timeline is
\* not fetched
FirstIssueYields ==
    \E i \in Classified :
        /\ ProbeMisses(all_developers[i], CutoffOf(i))
        /\ HasAssigned(i) /\ Len(AssignedOf(i)) = 2
        /\ ~EndedInFallback(i)
        /\ YieldsActive(i, 1)
        /\ AssignedOf(i)[2].number # NullNumber
        /\ ~TimelineFetched(i, AssignedOf(i)[2].number)

-----------------------------------------------------------------------------
(* The no-issues card's "last assigned" *)

\* every entry of the no-issues card renders its record's last_assigned_date,
\* as of the day the Sink built the entry
LastAssignedRendered ==
    HasCard("developers without assigned issues") =>
        LET fields == CardOf("developers without assigned issues").fields IN
        \A k \in 1..Len(fields) :
            k <= Cardinality(NoIssuesAt) =>
                fields[k].value.last_assigned
                    = format_date_display(sent[Nth(NoIssuesAt, k)].last_assigned_date,
                                          ReadAt(sink_clock[1], k))

\* C24: in the webhook payload, each entry of the no-issues card shows as
\* "last assigned" the relative-date rendering of its record's
\* last_assigned_date ("unknown" when absent), not another field.
C24_LastAssignedShown ==
    posts # <<>> => LastAssignedRendered

\* the same statement for the payload activity_tracker.py's own Sink posts
LastAssignedShownByTracker ==
    (posts # <<>> /\ notified_by = "activity_tracker") => LastAssignedRendered

-----------------------------------------------------------------------------
(* SpecCommits: one developer, a, whose commit history varies next to the    *)
(* pull requests, comments and assigned issues; every request is answered.  *)
(* SpecProbes: the same snapshots, next to the ways the requests go wrong.   *)
(* Ages are days before StartDay.                                            *)

CommitLogs == { <<>>, <<Stamp(1)>>, <<Stamp(8)>>, <<Stamp(0), Stamp(20)>> }

CommitsIssueOpts ==
    { <<>>,
      <<IssueOpt("ok", <<Assigned(A, Stamp(6))>>)>>,
      <<IssueOpt("ok", <<Assigned(A, Stamp(15))>>)>> }

\* how the requests go wrong: not at all, the search for pull requests
\* answered with an error status, the commits request failing to connect,
\* and every response carrying rate-limit headers _handle_rate_limit raises
\* on (a quota that is no number; a quota below the mark with a reset past
\* what datetime.fromtimestamp takes)
NoTrouble == [fail |-> {}, raises |-> {}, headers |-> NoHeaders]

CommitsTroubles ==
    { NoTrouble,
      [fail |-> {"search_prs"}, raises |-> {}, headers |-> NoHeaders],
      [fail |-> {}, raises |-> {"commits"}, headers |-> NoHeaders],
      [fail |-> {}, raises |-> {},
       headers |-> [remaining |-> <<10>>, reset |-> NoHeader]],
      [fail |-> {}, raises |-> {},
       headers |-> [remaining |-> DecimalString(LowWaterMark - 1),
                    reset |-> PastTimestampMax]] }

CommitsSnapshot(troubles) ==
    /\ \E commits \in CommitLogs, io \in CommitsIssueOpts, prs \in VerdictPrs,
          open_prs \in {<<>>, <<OpenPr(7, A)>>},
          comments \in VerdictComments, trouble \in troubles :
          api = [dev |-> [u \in {A} |->
                            Committing(DevData(io, <<>>, prs, open_prs, comments),
                                       commits)],
                 timeline |-> Timelines(io, <<>>),
                 fail |-> trouble.fail, fail_timeline |-> {},
                 raises |-> trouble.raises, headers |-> trouble.headers,
                 contributors |-> <<A>>, teams |-> <<>>, collaborators |-> <<>>,
                 webhook |-> 204]
    /\ config = DefaultConfig(<<"a">>)

InitCommits == CommitsSnapshot({NoTrouble}) /\ InitRest

SpecCommits == InitCommits /\ [][Next]_vars

InitProbes == CommitsSnapshot(CommitsTroubles) /\ InitRest

SpecProbes == InitProbes /\ [][Next]_vars

\* the snapshot g with the commit history of every login replaced
WithCommitLog(g, commits) ==
    [g EXCEPT !.dev = [u \in DOMAIN g.dev |-> [g.dev[u] EXCEPT !.commits = commits]]]

\* classification i asked for the commits
CommitsRequested(i) ==
    \E x \in 1..Len(traces[i]) : traces[i][x].ep = "commits"

\* the snapshot holds neither commits nor open pull requests of the login
NoCommitsNoOpenPrs(username) ==
    /\ CommitLog(GitHubClient, username) = <<>>
    /\ DevOf(GitHubClient, username).open_prs = <<>>

\* the record of classification i is the same whatever the commit history,
\* no commits were requested for it, and its last_activity_type is "PR",
\* "comment" or absent
RecordIgnoresCommits(i) ==
    /\ \A commits \in CommitLogs :
          collect_developer_data(WithCommitLog(GitHubClient, commits),
              all_developers[i], config, clock_log[i]).rec = all_data[i]
    /\ ~CommitsRequested(i)
    /\ all_data[i].stats.last_activity_type \in {"PR", "comment", None}

\* the probe of activity_tracker.py answers, and answers hit/no-hit as the
\* Classifier's probe does, at the cutoff
ProbesAgree(username, cutoff) ==
    /\ ~Raised(tracker_check_recent_activity(GitHubClient, username, cutoff))
    /\ tracker_check_recent_activity(GitHubClient, username, cutoff).val.hit
           = check_recent_activity(GitHubClient, username, cutoff).val.hit

\* C25: the record of data_collector.collect_developer_data is the same on
\* every snapshot that differs only in the developer's commit history,
\* get_user_commits is never called, last_activity_type is "PR", "comment" or
\* absent, and on snapshots without commits and open pull requests the probe
\* of activity_tracker.py answers hit/no-hit as the Classifier's probe does.
C25_CommitsAreNoEvidence ==
    \A i \in Classified :
        /\ RecordIgnoresCommits(i)
        /\ \A age \in 0..StatsWindowDays :
              NoCommitsNoOpenPrs(all_developers[i]) =>
                  ProbesAgree(all_developers[i], strftime(InactivityNow(i) - age))

\* the part of the claim about the records holds on every snapshot
CommitsNeverInRecords ==
    \A i \in Classified : RecordIgnoresCommits(i)

\* the two probes agree where every request is answered and
\* _handle_rate_limit raises on no response
ProbesAgreeWhenHandled ==
    \A i \in Classified : \A age \in 0..StatsWindowDays :
        (/\ NoCommitsNoOpenPrs(all_developers[i])
         /\ api.raises = {}
         /\ ~RateLimitRaises(HeadersOf(api)))
            => ProbesAgree(all_developers[i], strftime(InactivityNow(i) - age))

\* a commit of yesterday is the developer's only activity: the Classifier
\* reports the developer inactive and never active, the other probe hits
OnlyACommitSeen ==
    \E i \in Classified :
        /\ CommitLog(GitHubClient, all_developers[i]) = <<Stamp(1)>>
        /\ api.raises = {} /\ api.fail = {} /\ api.headers = NoHeaders
        /\ NoEvidenceExists(all_developers[i])
        /\ all_data[i].is_inactive = TRUE
        /\ all_data[i].stats.last_activity_type = None
        /\ tracker_check_recent_activity(GitHubClient, all_developers[i],
               CutoffOf(i)).val.hit
        /\ ~check_recent_activity(GitHubClient, all_developers[i],
               CutoffOf(i)).val.hit

\* no commits, no open pull requests, a pull request inside the window, and
\* responses whose rate-limit headers _handle_rate_limit raises on: the
\* Classifier's probe misses, the probe of activity_tracker.py hits
ProbesDisagreeOnHeaders ==
    \E i \in Classified :
        /\ NoCommitsNoOpenPrs(all_developers[i])
        /\ RateLimitRaises(HeadersOf(api))
        /\ tracker_check_recent_activity(GitHubClient, all_developers[i],
               CutoffOf(i)).val.hit
        /\ ~check_recent_activity(GitHubClient, all_developers[i],
               CutoffOf(i)).val.hit

\* no commits, and the commits request fails to connect: the probe of
\* activity_tracker.py raises, the Classifier's answers
TrackerProbeRaises ==
    \E i \in Classified :
        /\ NoCommitsNoOpenPrs(all_developers[i])
        /\ Raised(tracker_check_recent_activity(GitHubClient, all_developers[i],
                      CutoffOf(i)))
        /\ ~Raised(check_recent_activity(GitHubClient, all_developers[i],
                       CutoffOf(i)))

-----------------------------------------------------------------------------
(* Assigned issues without a usable assignment timestamp *)

\* the "assigned" events of a timeline that name the login
MatchingEvents(events, username) ==
    SelectSeq(events, LAMBDA e : e.event = "assigned" /\ e.assignee = username)

\* issue k of classification i has no assignment timestamp (no number, the
\* timeline not fetched or empty, no matching event) or one strptime rejects
TimestampUnusable(i, k) ==
    LET n == AssignedOf(i)[k].number
        events == get_issue_timeline(GitHubClient, n).val
    IN  \/ n = NullNumber
        \/ MatchingEvents(events, all_developers[i]) = <<>>
        \/ ~WellFormedDate(MatchingEvents(events, all_developers[i])[1].created_at)

AllTimestampsUnusable(i) ==
    /\ ProbeMisses(all_developers[i], CutoffOf(i))
    /\ HasAssigned(i)
    /\ \A k \in 1..Len(AssignedOf(i)) : TimestampUnusable(i, k)

InactiveSinceAssignment(i) ==
    /\ ~EndedInFallback(i)
    /\ all_data[i].is_inactive = TRUE
    /\ all_data[i].inactivity_reason = "no activity since issue assignment"
    /\ all_data[i].has_assigned_issues = TRUE
    /\ all_data[i].has_no_issues = FALSE

\* C26: an assigned issue whose assignment timestamp is absent or cannot be
\* parsed never yields active and never triggers the fallback record: when
\* that is so for every assigned issue and the first probe found nothing, the
\* record is a normal one with is_inactive = true, the reason "no activity
\* since issue assignment", has_assigned_issues = true, has_no_issues = false.
C26_UnusableTimestampIsInactive ==
    \A i \in Classified : AllTimestampsUnusable(i) => InactiveSinceAssignment(i)

\* the same statement when no exception reached the except branch
UnusableTimestampIsInactiveOnNormalPath ==
    \A i \in Classified :
        (AllTimestampsUnusable(i) /\ ~EndedInFallback(i))
            => InactiveSinceAssignment(i)

\* an issue assigned two days ago, inside the grace period, whose timestamp
\* strptime rejects: the developer is reported inactive
UnparsableInsideGrace ==
    \E i \in Classified :
        /\ AllTimestampsUnusable(i)
        /\ Len(AssignedOf(i)) = 1
        /\ MatchingEvents(get_issue_timeline(GitHubClient,
               AssignedOf(i)[1].number).val, all_developers[i])
             = <<Assigned(A, BadDate(StartDay - 2))>>
        /\ InactiveSinceAssignment(i)

-----------------------------------------------------------------------------
(* The reasons a record can carry *)

\* the texts of the exceptions the snapshots can raise
ExceptionTexts ==
    {AttributeErrorText, KeyErrorNumberText, KeyErrorLoginText, ValueErrorText}

VerdictReasons ==
    {None, "no activity since issue assignment",
     "no recent activity and no assigned issues"}
    \cup {"error collecting data: " \o text : text \in ExceptionTexts}

\* the reasons of the refinement, for the thresholds a configuration can hold
RefinementReasons ==
    {"no pull requests created recently", "no pull requests merged recently",
     "no comments on issues/prs recently"}
    \cup {"no activity in the past " \o ToString(n) \o " days" : n \in 0..StatsWindowDays}

\* C27: in every record inactivity_reason is absent, "no activity since issue
\* assignment", "no recent activity and no assigned issues" or "error
\* collecting data: " followed by the error text; the reasons of the
\* refinement are never produced.
C27_ReasonsOfTheVerdictOnly ==
    \A i \in Classified :
        /\ all_data[i].inactivity_reason \in VerdictReasons
        /\ all_data[i].inactivity_reason \notin RefinementReasons

\* an inactive developer without pull requests or comments in the window,
\* whom the first line of the refinement would fit: the reason is the
\* verdict's
C27_Witness ==
    \E i \in Classified :
        /\ all_data[i].is_inactive = TRUE
        /\ all_data[i].stats.prs_created = 0
        /\ all_data[i].stats.comments = 0
        /\ all_data[i].has_assigned_issues = TRUE
        /\ all_data[i].inactivity_reason = "no activity since issue assignment"

-----------------------------------------------------------------------------
(* Probe monotonicity *)

\* the cutoffs of the statistics window, as days before the reading of the
\* clock of classification i
CutoffAges == 0..StatsWindowDays

\* on the snapshot, a probe that misses at a cutoff misses at every later one
ProbeMonotone(i) ==
    \A early \in CutoffAges : \A late \in 0..early :
        ProbeMisses(all_developers[i], strftime(InactivityNow(i) - early))
            => ProbeMisses(all_developers[i], strftime(InactivityNow(i) - late))

\* issue k is in its grace period
GraceUnexpired(i, k) ==
    LET d == ResolvedDate(AssignedOf(i)[k], all_developers[i]) IN
    Truthy(d) /\ strptime(d) + Threshold > GraceNow(i, k)

\* issue k was assigned more than twice the threshold ago and the probe at
\* assignment + threshold, a cutoff before now - threshold, finds evidence
OldAssignmentWithEvidence(i, k) ==
    LET d == ResolvedDate(AssignedOf(i)[k], all_developers[i]) IN
    /\ Truthy(d)
    /\ strptime(d) + Threshold < InactivityNow(i) - Threshold
    /\ ~ProbeMisses(all_developers[i], strftime(strptime(d) + Threshold))

\* C28: on a fixed snapshot, check_recent_activity finding nothing at a
\* cutoff finds nothing at any later cutoff; so a developer for whom the
\* first probe found nothing is reported active only through an unexpired
\* grace period or an assignment older than twice the threshold with evidence
\* on/after assignment + threshold.
C28_ProbeMonotone ==
    \A i \in Classified :
        /\ ProbeMonotone(i)
        /\ (/\ ProbeMisses(all_developers[i], CutoffOf(i))
            /\ all_data[i].is_inactive = FALSE)
              => /\ HasAssigned(i)
                 /\ \E k \in 1..Len(AssignedOf(i)) :
                       GraceUnexpired(i, k) \/ OldAssignmentWithEvidence(i, k)

\* no evidence in the last threshold days, the only issue assigned 15 days
\* ago (grace period over), a pull request created 8 days ago: reported
\* is_inactive = false
C28_Witness ==
    \E i \in Classified :
        /\ ProbeMisses(all_developers[i], CutoffOf(i))
        /\ HasAssigned(i) /\ Len(AssignedOf(i)) = 1
        /\ ~GraceUnexpired(i, 1)
        /\ OldAssignmentWithEvidence(i, 1)
        /\ all_data[i].is_inactive = FALSE

-----------------------------------------------------------------------------
(* has_no_issues, has_assigned_issues and last_assigned_date *)

\* classification i asked for the issues ever assigned
LastAssignedRequested(i) ==
    \E x \in 1..Len(traces[i]) : traces[i][x].ep = "search_assigned"

\* C29: in every record has_no_issues = true implies has_assigned_issues =
\* false, and last_assigned_date is absent whenever has_assigned_issues =
\* true: get_last_assigned_date is called only for developers for whom no
\* assigned open issue was listed, and the assignment timestamps resolved in
\* the grace-period evaluation are not stored in the record.
C29_NoIssuesExcludesAssigned ==
    \A i \in Classified :
        /\ all_data[i].has_no_issues => ~all_data[i].has_assigned_issues
        /\ all_data[i].has_assigned_issues => all_data[i].last_assigned_date = NoDate
        /\ LastAssignedRequested(i) => NoAssignedIssues(all_developers[i])

\* a developer whose issue was assigned 6 days ago and who was assigned
\* another one 40 days ago: the grace-period evaluation resolved the date, the
\* record stores none and the issues ever assigned were not asked for
C29_Witness ==
    \E i \in Classified :
        /\ HasAssigned(i)
        /\ GraceUnexpired(i, 1)
        /\ DevOf(GitHubClient, all_developers[i]).history # <<>>
        /\ all_data[i].has_assigned_issues = TRUE
        /\ all_data[i].has_no_issues = FALSE
        /\ all_data[i].last_assigned_date = NoDate
        /\ ~LastAssignedRequested(i)

-----------------------------------------------------------------------------
(* SpecMerged: one developer, a; the pull requests the searches return vary  *)
(* in author and merged state, and either search may fail.                   *)

MergedPrs ==
    { <<>>,
      <<Pr(5, 3, A, TRUE)>>,
      <<Pr(9, 1, B, TRUE)>>,
      <<Pr(9, 1, B, TRUE), Pr(6, 4, A, FALSE)>>,
      <<Pr(6, 4, A, TRUE), Pr(5, 2, A, TRUE)>>,
      <<Pr(5, 3, A, TRUE), Pr(9, 0, JsonNull, FALSE)>> }

InitMerged ==
    /\ \E prs \in MergedPrs, comments \in {<<>>, <<Comment(2)>>},
          ho \in LastActivityHistory,
          fail \in {{}, {"search_merged"}, {"search_prs"}} :
          api = [dev |-> [u \in {A} |-> DevData(<<>>, ho, prs, <<>>, comments)],
                 timeline |-> Timelines(<<>>, ho),
                 fail |-> fail, fail_timeline |-> {},
                 contributors |-> <<A>>, teams |-> <<>>, collaborators |-> <<>>,
                 webhook |-> 204]
    /\ config = DefaultConfig(<<"a">>)
    /\ InitRest

SpecMerged == InitMerged /\ [][Next]_vars

\* the merged pull requests of the 30-day window the platform holds under the
\* login's search, whoever their author is
MergedHeld(i) ==
    {k \in 1..Len(DevOf(GitHubClient, all_developers[i]).prs) :
        LET p == DevOf(GitHubClient, all_developers[i]).prs[k] IN
        /\ p.merged
        /\ strptime(p.created_at) >= StatsNow(i) - StatsWindowDays}

MergedCountTaken(i) ==
    /\ all_data[i].stats.prs_merged
           = get_user_prs(GitHubClient, all_developers[i],
                 strftime(StatsNow(i) - StatsWindowDays), FALSE, TRUE).val.total_count
    /\ "search_merged" \in api.fail => all_data[i].stats.prs_merged = 0
    /\ "search_merged" \notin api.fail
           => all_data[i].stats.prs_merged = Cardinality(MergedHeld(i))

\* C30: stats.prs_merged is the total_count the Gateway's merged-PR query
\* reports, taken without author verification (a pull request dropped from
\* prs_created still counts), and 0 whenever that query fails.
C30_MergedCountUnverified ==
    \A i \in Classified : MergedCountTaken(i)

\* the same statement for the records of the normal path only
MergedCountUnverifiedOnNormalPath ==
    \A i \in Classified : ~EndedInFallback(i) => MergedCountTaken(i)

\* a normal record that reports more merged than created pull requests: the
\* only pull request returned is b's, merged
MoreMergedThanCreated ==
    \E i \in Classified :
        /\ ~EndedInFallback(i)
        /\ all_data[i].stats.prs_created = 0
        /\ all_data[i].stats.prs_merged = 1

-----------------------------------------------------------------------------
(* The Gateway's contract on failures *)

\* a roster method of the Gateway raises on the current snapshot
RosterRaises ==
    \/ Raised(get_contributors(GitHubClient))
    \/ Raised(get_teams(GitHubClient))
    \/ Raised(get_collaborators(GitHubClient))
    \/ \E k \in 1..Len(api.teams) : Raised(team_members_of(GitHubClient, k))

\* a per-developer method of the Gateway raises on the current snapshot
DeveloperRaises(username) ==
    \/ Raised(get_user_prs(GitHubClient, username, strftime(now - StatsWindowDays), FALSE, FALSE))
    \/ Raised(get_user_comments(GitHubClient, username, strftime(now - StatsWindowDays), FALSE))
    \/ Raised(get_user_open_prs(GitHubClient, username))
    \/ Raised(get_assigned_issues(GitHubClient, username))
    \/ Raised(get_last_assigned_date(GitHubClient, username))
    \/ \E n \in DOMAIN api.timeline :
           \/ Raised(get_issue_timeline(GitHubClient, n))
           \/ Raised(get_issue_assignment_date(GitHubClient, n, username))

\* C11: every Gateway method returns an empty/absent result and raises
\* nothing, whether the request fails or the body is malformed (an item
\* without "login" or "number", a null assignee)
C11_GatewayNeverRaises ==
    /\ ~RosterRaises
    /\ \A username \in DOMAIN api.dev : ~DeveloperRaises(username)
    /\ pc # "crashed"
===============================================================================
